---- MODULE Spec2Model ----
(***************************************************************************)
(* Forward propagation units of veles.znicz: the convolutional layers of   *)
(* conv.py (Conv, ConvTanh, ConvRELU) and the fully connected layers of    *)
(* all2all.py (All2All, All2AllTanh, All2AllSoftmax).                      *)
(*                                                                         *)
(* One layer object is modelled.  Its attributes are the variables, its    *)
(* methods (initialize, cpu_run, ocl_run / gpu_run) are the actions.       *)
(*                                                                         *)
(* Arrays are numpy arrays: a shape (a function on 0..ndim-1) and the      *)
(* row-major data (a function on 0..size-1).  Indices are 0-based as in    *)
(* the source.  Input elements are integers; weights, bias and output are  *)
(* fixed-point reals in units of 1/FP, so that input * weight + bias is    *)
(* exact.  An output element is a record [f, x]: the function f applied    *)
(* to the fixed-point value x ("id": x itself, "tanh": 1.7159 *            *)
(* tanh(0.6666 * x), "softplus": log(exp(x) + 1), "softmax": exp(x)        *)
(* divided by the sum of exp over its row).                                *)
(***************************************************************************)
EXTENDS Integers, Sequences, FiniteSets, TLC

(***************************************************************************)
(* Bounds of the model.                                                    *)
(***************************************************************************)
InDims == 1..2      \* input height and width
KDims == 1..2       \* kernel height and width
Pads == 0..1        \* every padding component
Slides == 1..2      \* every sliding component
Batch == 1          \* samples per minibatch
NChannels == 1      \* channels of a convolutional input
NKernels == 2       \* n_kernels of a convolutional layer
MaxFan == 3         \* All2All: input and output units range over 1..MaxFan
FP == 10 ^ 4        \* fixed-point denominator of weights, bias and output
DataSeeds == {0}    \* the input patterns the upstream unit supplies
FillSeeds == {0}    \* the draws of the random generator

ConvClasses == {"Conv", "ConvTanh", "ConvRELU"}
A2AClasses == {"All2All", "All2AllTanh", "All2AllSoftmax"}
Fillings == {"uniform", "gaussian", "constant"}

VARIABLES
    cls,                \* class of the layer object
    kx, ky, n_kernels, padding, sliding,
    output_shape,       \* All2All: number of output units
    weights_transposed, weights_filling, bias_filling,
    weights_stddev, bias_stddev,
    weights_amplitude,  \* All2All
    s_activation, unit_test,
    input, weights, bias, output, max_idx,
    output_vv,          \* output.vv: the whole allocation in unit_test mode
    input_maxvle,       \* input.supposed_maxvle (All2All: input_maxvle)
    output_maxvle,      \* output.supposed_maxvle
    batch_size, sx, sy, n_channels,     \* _batch_size, _sx, _sy, _n_channels
    initialized,        \* the last initialize returned and input is as then
    device,             \* the layer was given a device (self.device is not None)
    krn_,               \* the kernel program the layer holds, what it was built for
    map_flags,          \* input, weights, bias, output: how the host has it mapped
    queue_,             \* the kernels enqueued on the device and not waited on
    err_y, err_h,       \* GradientDescentConv: the upstream error, the input error
    global_alpha, global_lambda,    \* its learning rate and weight decay
    last_call           \* the last method called and the exception it raised

vars == <<cls, kx, ky, n_kernels, padding, sliding, output_shape,
          weights_transposed, weights_filling, bias_filling,
          weights_stddev, bias_stddev, weights_amplitude, s_activation,
          unit_test, input, weights, bias, output, max_idx,
          output_vv, input_maxvle, output_maxvle,
          batch_size, sx, sy, n_channels, initialized, device, krn_,
          map_flags, queue_, err_y, err_h, global_alpha, global_lambda,
          last_call>>

(***************************************************************************)
(* numpy arrays.                                                           *)
(***************************************************************************)
Min(a, b) == IF a < b THEN a ELSE b
Max(a, b) == IF a > b THEN a ELSE b

Sh1(a) == [d \in 0..0 |-> a]
Sh2(a, b) == [d \in 0..1 |-> IF d = 0 THEN a ELSE b]
Sh4(a, b, c, e) ==
    [d \in 0..3 |-> IF d = 0 THEN a ELSE IF d = 1 THEN b ELSE IF d = 2 THEN c ELSE e]

NDim(shape) == Cardinality(DOMAIN shape)

RECURSIVE ProdFrom(_, _)
ProdFrom(shape, d) ==
    IF d \notin DOMAIN shape THEN 1 ELSE shape[d] * ProdFrom(shape, d + 1)

Prod(shape) == ProdFrom(shape, 0)

\* A Vector whose mem is None.
NoneVec == [alloc |-> FALSE, shape |-> <<>>, data |-> <<>>]

Array(shape, data) == [alloc |-> TRUE, shape |-> shape, data |-> data]

Size(v) == Prod(v.shape)

Zero == [f |-> "id", x |-> 0]

\* numpy.zeros(shape) of real numbers, and of output elements
Zeros(shape) == Array(shape, [t \in 0..(Prod(shape) - 1) |-> 0])
ZerosOut(shape) == Array(shape, [t \in 0..(Prod(shape) - 1) |-> Zero])

\* Python's slice bounds: a negative bound counts from the end, and both are
\* clipped to 0..n
PyBound(n, idx) ==
    IF idx < 0 THEN Max(idx + n, 0) ELSE Min(idx, n)

PySliceStart(n, lo, hi) == PyBound(n, lo)
PySliceLen(n, lo, hi) == Max(PyBound(n, hi) - PyBound(n, lo), 0)

\* a[:n] along the first axis
HeadRows(v, n) ==
    LET shape == [d \in DOMAIN v.shape |->
                     IF d = 0 THEN PySliceLen(v.shape[0], 0, n) ELSE v.shape[d]]
    IN  Array(shape, [t \in 0..(Prod(shape) - 1) |-> v.data[t]])

\* a.transpose().copy() of a matrix
Transposed(v) ==
    LET r == v.shape[0]
        c == v.shape[1]
    IN  Array(Sh2(c, r), [t \in 0..(r * c - 1) |-> v.data[(t % r) * c + (t \div r)]])

\* a.reshape(shape): the same data under another shape
Reshaped(v, shape) == Array(shape, v.data)

RECURSIVE SumTo(_, _)
SumTo(f, n) == IF n = 0 THEN 0 ELSE f[n - 1] + SumTo(f, n - 1)

\* numpy.sum over a flat array indexed 0..n-1
Sum(f) == SumTo(f, Cardinality(DOMAIN f))


(***************************************************************************)
(* Conv.cpu_run.  L is the layer: a record of the attributes the run       *)
(* reads; st is [mem, exc]: output.mem and the exception raised so far.    *)
(***************************************************************************)
Self ==
    [kx |-> kx, ky |-> ky, n_kernels |-> n_kernels, padding |-> padding,
     sliding |-> sliding, weights_transposed |-> weights_transposed,
     s_activation |-> s_activation, input |-> input, weights |-> weights,
     bias |-> bias, batch_size |-> batch_size, sx |-> sx, sy |-> sy,
     n_channels |-> n_channels]

\* for k, kernel in enumerate(self.weights.mem): the rows of the array
NRows(w) == IF w.alloc THEN w.shape[0] ELSE 0
RowLen(w) == IF NDim(w.shape) = 1 THEN 1 ELSE Size(w) \div w.shape[0]

\* nx, ny of cpu_run
CpuNx(L) ==
    LET sx_full == L.padding[0] + L.sx + L.padding[2]
    IN  (sx_full - L.kx) \div L.sliding[0] + 1

CpuNy(L) ==
    LET sy_full == L.padding[1] + L.sy + L.padding[3]
    IN  (sy_full - L.ky) \div L.sliding[1] + 1

\* WindowI without the upper clamp of in_i2 to the input height; C3_WindowBounds
\* tells the two apart
WindowIUnclamped(L, i) ==
    LET full_i1 == i * L.sliding[1]
        full_i2 == full_i1 + L.ky
        in_i1 == Min(Max(full_i1 - L.padding[1], 0), L.sy)
        in_i2 == Max(full_i2 - L.padding[1], 0)
    IN  [in1 |-> in_i1, in2 |-> in_i2,
         cut1 |-> in_i1 - full_i1 + L.padding[1],
         cut2 |-> in_i2 - full_i1 + L.padding[1]]

\* WindowI that takes the left padding for the top padding; C23_InputError
\* tells the two apart
WindowIPadLeft(L, i) ==
    LET full_i1 == i * L.sliding[1]
        full_i2 == full_i1 + L.ky
        in_i1 == Min(Max(full_i1 - L.padding[0], 0), L.sy)
        in_i2 == Min(Max(full_i2 - L.padding[0], 0), L.sy)
    IN  [in1 |-> in_i1, in2 |-> in_i2,
         cut1 |-> in_i1 - full_i1 + L.padding[0],
         cut2 |-> in_i2 - full_i1 + L.padding[0]]

\* in_i1, in_i2, cut_i1, cut_i2 of output row i
WindowI(L, i) ==
    LET full_i1 == i * L.sliding[1]
        full_i2 == full_i1 + L.ky
        in_i1 == Min(Max(full_i1 - L.padding[1], 0), L.sy)
        in_i2 == Min(Max(full_i2 - L.padding[1], 0), L.sy)
    IN  [in1 |-> in_i1, in2 |-> in_i2,
         cut1 |-> in_i1 - full_i1 + L.padding[1],
         cut2 |-> in_i2 - full_i1 + L.padding[1]]

\* WindowJ that steps by the row stride; C22_GradientDescentUpdate tells the
\* two apart
WindowJRowStride(L, j) ==
    LET full_j1 == j * L.sliding[1]
        full_j2 == full_j1 + L.kx
        in_j1 == Min(Max(full_j1 - L.padding[0], 0), L.sx)
        in_j2 == Min(Max(full_j2 - L.padding[0], 0), L.sx)
    IN  [in1 |-> in_j1, in2 |-> in_j2,
         cut1 |-> in_j1 - full_j1 + L.padding[0],
         cut2 |-> in_j2 - full_j1 + L.padding[0]]

\* WindowJ without the upper clamp of in_j2 to the input width;
\* C27_AssertNeverFails tells the two apart
WindowJUnclamped(L, j) ==
    LET full_j1 == j * L.sliding[0]
        full_j2 == full_j1 + L.kx
        in_j1 == Min(Max(full_j1 - L.padding[0], 0), L.sx)
        in_j2 == Max(full_j2 - L.padding[0], 0)
    IN  [in1 |-> in_j1, in2 |-> in_j2,
         cut1 |-> in_j1 - full_j1 + L.padding[0],
         cut2 |-> in_j2 - full_j1 + L.padding[0]]

\* in_j1, in_j2, cut_j1, cut_j2 of output column j
WindowJ(L, j) ==
    LET full_j1 == j * L.sliding[0]
        full_j2 == full_j1 + L.kx
        in_j1 == Min(Max(full_j1 - L.padding[0], 0), L.sx)
        in_j2 == Min(Max(full_j2 - L.padding[0], 0), L.sx)
    IN  [in1 |-> in_j1, in2 |-> in_j2,
         cut1 |-> in_j1 - full_j1 + L.padding[0],
         cut2 |-> in_j2 - full_j1 + L.padding[0]]

\* HasIntersection that asks for a patch of more than one row or column;
\* C28_SmallPaddingAllAssigned tells the two apart
HasIntersectionWide(wi, wj) == wi.in2 - wi.in1 > 1 \/ wj.in2 - wj.in1 > 1

\* HasIntersection that asks for a patch on both axes; C25_EmptyOnBothAxes
\* tells the two apart
HasIntersectionBoth(wi, wj) == wi.in2 - wi.in1 > 0 /\ wj.in2 - wj.in1 > 0

\* the condition under which the cell is computed; otherwise the scan breaks
HasIntersection(wi, wj) == wi.in2 - wi.in1 > 0 \/ wj.in2 - wj.in1 > 0

\* cut = self.input.mem[batch, in_i1:in_i2, in_j1:in_j2]: its size and the
\* t-th element of cut.ravel()
CutSize(L, wi, wj) ==
    PySliceLen(L.input.shape[1], wi.in1, wi.in2)
    * PySliceLen(L.input.shape[2], wj.in1, wj.in2) * L.input.shape[3]

CutAt(L, batch, wi, wj, t) ==
    LET s1 == L.input.shape[1]
        s2 == L.input.shape[2]
        s3 == L.input.shape[3]
        i0 == PySliceStart(s1, wi.in1, wi.in2)
        j0 == PySliceStart(s2, wj.in1, wj.in2)
        dj == PySliceLen(s2, wj.in1, wj.in2)
    IN  L.input.data[((batch * s1 + i0 + (t \div (dj * s3))) * s2
                      + j0 + ((t \div s3) % dj)) * s3 + (t % s3)]

\* cutted_kernel = kernel.reshape(ky, kx, n_channels)[cut_i1:cut_i2,
\* cut_j1:cut_j2, :]: its size and the t-th element of cutted_kernel.ravel()
CuttedKernelSize(L, wi, wj) ==
    PySliceLen(L.ky, wi.cut1, wi.cut2) * PySliceLen(L.kx, wj.cut1, wj.cut2)
    * L.n_channels

CuttedKernelAt(L, k, wi, wj, t) ==
    LET i0 == PySliceStart(L.ky, wi.cut1, wi.cut2)
        j0 == PySliceStart(L.kx, wj.cut1, wj.cut2)
        dj == PySliceLen(L.kx, wj.cut1, wj.cut2)
        ch == L.n_channels
    IN  L.weights.data[k * RowLen(L.weights)
                       + ((i0 + (t \div (dj * ch))) * L.kx + j0 + ((t \div ch) % dj)) * ch
                       + (t % ch)]

\* numpy.sum(numpy.multiply(cut.ravel(), cutted_kernel.ravel()))
Conv(L, batch, k, wi, wj) ==
    Sum([t \in 0..(CutSize(L, wi, wj) - 1) |->
            CutAt(L, batch, wi, wj, t) * CuttedKernelAt(L, k, wi, wj, t)])

\* the activation applied to conv + bias
Activation(s, v) ==
    IF s = "ACTIVATION_LINEAR" THEN [f |-> "id", x |-> v]
    ELSE IF s = "ACTIVATION_TANH" THEN [f |-> "tanh", x |-> v]
    ELSE IF v > 15 * FP THEN [f |-> "id", x |-> v]
    ELSE [f |-> "softplus", x |-> v]

KnownActivations == {"ACTIVATION_LINEAR", "ACTIVATION_TANH", "ACTIVATION_RELU"}

InBounds4(shape, a, b, c, d) ==
    /\ DOMAIN shape = 0..3
    /\ a >= 0 /\ a < shape[0]
    /\ b >= 0 /\ b < shape[1]
    /\ c >= 0 /\ c < shape[2]
    /\ d >= 0 /\ d < shape[3]

Flat4(shape, a, b, c, d) == ((a * shape[1] + b) * shape[2] + c) * shape[3] + d

\* the body of the "if" of one output cell (batch, i, j, k)
ComputeCell(L, st, batch, k, i, j) ==
    LET wi == WindowI(L, i)
        wj == WindowJ(L, j)
    IN  IF RowLen(L.weights) # L.ky * L.kx * L.n_channels
        THEN [st EXCEPT !.exc = "ValueError"]          \* reshape
        ELSE     IF CutSize(L, wi, wj) # CuttedKernelSize(L, wi, wj)
                 THEN [st EXCEPT !.exc = "AssertionError"]
                 ELSE IF ~InBounds4(st.mem.shape, batch, i, j, k)
                 THEN [st EXCEPT !.exc = "IndexError"]
                 ELSE LET conv == Conv(L, batch, k, wi, wj)
                          t == Flat4(st.mem.shape, batch, i, j, k)
                      IN  IF L.s_activation \notin KnownActivations
                          THEN [mem |-> [st.mem EXCEPT !.data[t] = [f |-> "id", x |-> conv]],
                                exc |-> "ValueError"]
                          ELSE IF k >= Size(L.bias)
                          THEN [mem |-> [st.mem EXCEPT !.data[t] = [f |-> "id", x |-> conv]],
                                exc |-> "IndexError"]
                          ELSE [st EXCEPT !.mem.data[t] =
                                   Activation(L.s_activation, conv + L.bias.data[k])]

\* for i, j in ((i, j) for i in range(ny) for j in range(nx)), from the p-th
\* pair on
RECURSIVE ScanCells(_, _, _, _, _)
ScanCells(L, st, batch, k, p) ==
    LET nx == CpuNx(L)
        ny == CpuNy(L)
    IN
    IF ny <= 0 \/ nx <= 0 \/ p >= ny * nx THEN st
    ELSE LET i == p \div nx
             j == p % nx
         IN  IF HasIntersection(WindowI(L, i), WindowJ(L, j))
             THEN LET r == ComputeCell(L, st, batch, k, i, j)
                  IN  IF r.exc # "none" THEN r
                      ELSE ScanCells(L, r, batch, k, p + 1)
             ELSE st                                   \* break

\* for k, kernel in enumerate(self.weights.mem), from row k on
RECURSIVE ScanKernels(_, _, _, _)
ScanKernels(L, st, batch, k) ==
    IF k >= NRows(L.weights) THEN st
    ELSE LET r == ScanCells(L, st, batch, k, 0)
         IN  IF r.exc # "none" THEN r ELSE ScanKernels(L, r, batch, k + 1)

\* for batch, _ in ((batch, ch) for batch in range(self._batch_size)
\*                  for ch in range(self._n_channels)), from the t-th pair on
RECURSIVE ScanBatches(_, _, _)
ScanBatches(L, st, t) ==
    IF t >= L.batch_size * L.n_channels THEN st
    ELSE LET r == ScanKernels(L, st, t \div L.n_channels, 0)
         IN  IF r.exc # "none" THEN r ELSE ScanBatches(L, r, t + 1)

\* Conv.cpu_run on layer L with output.mem = out: the output it leaves and
\* the exception it raises
CpuRun(L, out) == ScanBatches(L, [mem |-> out, exc |-> "none"], 0)

(***************************************************************************)
(* Conv.initialize.                                                        *)
(***************************************************************************)
\* an attribute that is None or a fixed-point number
NoneNum == [some |-> FALSE, v |-> 0]
Some(v) == [some |-> TRUE, v |-> v]

MulFP(a, b) == (a * b) \div FP
DivFP(a, b) == (a * FP) \div b

WeightsCap == (5 * FP) \div 100                 \* 0.05
TanhScale == (6666 * FP) \div 10000             \* 0.6666
TanhMax == (17159 * FP) \div 10000              \* 1.7159

\* rand.fill(mem, -stddev, stddev): a draw of n numbers of [-stddev, stddev]
UniformDraw(n, stddev, seed) ==
    [t \in 0..(n - 1) |-> ((((t * 3 + seed) % 5) - 2) * stddev) \div 2]

\* rand.fill_normal_real(mem, 0, stddev): a draw of n numbers
NormalDraw(n, stddev, seed) ==
    [t \in 0..(n - 1) |-> (((t * 2 + seed) % 7) - 3) * stddev]

\* Conv.get_weights_magnitude and ConvTanh.get_weights_magnitude, real dtype
GetWeightsMagnitude(c, inp, maxvle, kxv, kyv, filling) ==
    LET nch == Size(inp) \div (inp.shape[0] * inp.shape[1] * inp.shape[2])
        m == IF c = "ConvTanh" THEN MulFP(maxvle, TanhScale) ELSE maxvle
        vle == DivFP(9 * FP, m) \div (kxv * kyv * nch)
    IN  IF filling = "gaussian" THEN vle \div 3 ELSE vle

\* NeedsAlloc of a layer that refills its buffers on every initialize;
\* C9_ExistingBuffersKept tells the two apart
NeedsAllocAlways(v, n) == TRUE

\* if v.mem is None or v.mem.size != n
NeedsAlloc(v, n) == ~v.alloc \/ Size(v) # n

\* the filling of a flat array of n zeros: [mem, exc]
Fill(n, filling, stddev, seed) ==
    IF filling = "uniform"
    THEN [mem |-> Array(Sh1(n), UniformDraw(n, stddev, seed)), exc |-> "none"]
    ELSE IF filling = "gaussian"
    THEN [mem |-> Array(Sh1(n), NormalDraw(n, stddev, seed)), exc |-> "none"]
    ELSE IF filling = "constant"
    THEN [mem |-> Array(Sh1(n), [t \in 0..(n - 1) |-> stddev]), exc |-> "none"]
    ELSE [mem |-> Zeros(Sh1(n)), exc |-> "ErrBadFormat"]

\* the weights after the weights block of initialize: [mem, exc]
InitWeights(w, nk, rowlen, filling, stddev, transposed, seed) ==
    IF NeedsAlloc(w, nk * rowlen)
    THEN LET r == Fill(nk * rowlen, filling, stddev, seed)
             m == Reshaped(r.mem, Sh2(nk, rowlen))
         IN  IF r.exc # "none" THEN r
             ELSE IF transposed
             THEN [mem |-> Reshaped(Transposed(m), Sh2(rowlen, nk)), exc |-> "none"]
             ELSE [mem |-> m, exc |-> "none"]
    ELSE [mem |-> w, exc |-> "none"]

\* the bias after the bias block of initialize: [mem, exc]
InitBias(b, nk, filling, stddev, seed) ==
    IF NeedsAlloc(b, nk)
    THEN Fill(nk, filling, stddev, seed)
    ELSE [mem |-> b, exc |-> "none"]

\* ConvOutputShape with the extents rounded up; C2_OutputExtent tells the two
\* apart
ConvOutputShapeCeil(bsz, syv, sxv, kxv, kyv, pad, sl, nk) ==
    Sh4(bsz,
        (syv + pad[1] + pad[3] - kyv + sl[1] - 1) \div sl[1] + 1,
        (sxv + pad[0] + pad[2] - kxv + sl[0] - 1) \div sl[0] + 1,
        nk)

\* output_shape of initialize, for a batch dimension of bsz
ConvOutputShape(bsz, syv, sxv, kxv, kyv, pad, sl, nk) ==
    Sh4(bsz,
        (syv + pad[1] + pad[3] - kyv) \div sl[1] + 1,
        (sxv + pad[0] + pad[2] - kxv) \div sl[0] + 1,
        nk)

\* the output after the output block of initialize
InitOutput(out, shape) ==
    IF NeedsAlloc(out, Prod(shape)) THEN ZerosOut(shape) ELSE out

ClassActivation(c, s) ==
    IF c = "ConvTanh" THEN "ACTIVATION_TANH"
    ELSE IF c = "ConvRELU" THEN "ACTIVATION_RELU"
    ELSE s

\* supposed_maxvle of the output after initialize returned
ClassOutputMaxvle(c, old) ==
    IF c = "ConvTanh" THEN TanhMax
    ELSE IF c = "ConvRELU" THEN 10 * FP
    ELSE old

(***************************************************************************)
(* The device side: the mapping of the four buffers between host and       *)
(* device, and the kernel program initialize builds.                       *)
(***************************************************************************)
Buffers == {"input", "weights", "bias", "output"}

\* no buffer is mapped on the host
AllUnmapped == [b \in Buffers |-> "unmapped"]

\* no kernel program: self.krn_ = None
NoneKrn == [some |-> FALSE, key |-> <<>>, file |-> <<>>]

\* the buffer calls and accesses of cpu_run without output.map_invalidate();
\* C20_MappedBeforeTouched tells the two apart
CpuRunStepsNoInvalidate ==
    << <<"map_read", "input">>, <<"map_read", "weights">>, <<"map_read", "bias">>,
       <<"host_read", "weights">>, <<"host_read", "input">>,
       <<"host_write", "output">>, <<"host_read", "bias">> >>

\* the buffer calls of Conv.cpu_run and the host accesses of its loop, in
\* the order of the code
CpuRunSteps ==
    << <<"map_read", "input">>, <<"map_read", "weights">>, <<"map_read", "bias">>,
       <<"map_invalidate", "output">>,
       <<"host_read", "weights">>, <<"host_read", "input">>,
       <<"host_write", "output">>, <<"host_read", "bias">> >>

\* the buffer calls of Conv.ocl_run, the launch of the kernel, the buffers
\* the kernel works on (set_args(input, weights, output, bias)) and the wait
\* for it, in the order of the code
OclRunSteps ==
    << <<"unmap", "output">>, <<"unmap", "input">>, <<"unmap", "weights">>,
       <<"unmap", "bias">>,
       <<"enqueue", "feed_layer">>,
       <<"kernel", "input">>, <<"kernel", "weights">>, <<"kernel", "output">>,
       <<"kernel", "bias">>,
       <<"wait", "feed_layer">> >>

\* the buffer call of Conv.print_debug_data and its read of output.mem
DebugSteps == << <<"map_read", "output">>, <<"host_read", "output">> >>

\* the mapping of the buffers after one step
AfterStep(flags, step) ==
    IF step[1] = "map_read" THEN [flags EXCEPT ![step[2]] = "read"]
    ELSE IF step[1] = "map_invalidate" THEN [flags EXCEPT ![step[2]] = "invalidate"]
    ELSE IF step[1] = "unmap" THEN [flags EXCEPT ![step[2]] = "unmapped"]
    ELSE flags

\* an access that the mapping of its buffer does not allow: the host reads
\* or writes a buffer it has not mapped for that, or the kernel works on a
\* buffer the host has mapped
IsHazard(flags, step) ==
    \/ step[1] = "host_read" /\ flags[step[2]] \notin {"read"}
    \/ step[1] = "host_write" /\ flags[step[2]] \notin {"invalidate"}
    \/ step[1] = "kernel" /\ flags[step[2]] # "unmapped"

\* the steps from the i-th on, started with mapping flags: the mapping they
\* leave, and whether one of them was a hazard
RECURSIVE RunSteps(_, _, _)
RunSteps(flags, steps, i) ==
    IF i > Len(steps) THEN [flags |-> flags, hazard |-> FALSE]
    ELSE LET r == RunSteps(AfterStep(flags, steps[i]), steps, i + 1)
         IN  [r EXCEPT !.hazard = r.hazard \/ IsHazard(flags, steps[i])]

\* GpuRunSteps of a run that marks the output as updated and returns
\* without waiting for the event of the launch; C21_LaunchesWaited tells the
\* two apart
GpuRunStepsNoWait ==
    << <<"sync", "input">>, <<"sync", "weights">>, <<"sync", "bias">>,
       <<"enqueue", "FEED_LAYER">>, <<"update", "output">> >>

\* All2All.gpu_run: the buffers synchronized to the device, the launch of
\* the kernel, the wait for its event, and the output marked as updated on
\* the device
GpuRunSteps ==
    << <<"sync", "input">>, <<"sync", "weights">>, <<"sync", "bias">>,
       <<"enqueue", "FEED_LAYER">>, <<"wait", "FEED_LAYER">>,
       <<"update", "output">> >>

\* All2AllSoftmax.gpu_apply_exp
GpuApplyExpSteps ==
    << <<"sync", "output">>,
       <<"enqueue", "apply_exp">>, <<"wait", "apply_exp">>,
       <<"update", "output">>, <<"update", "max_idx">> >>

\* gpu_run of a layer of class c: All2AllSoftmax.gpu_run runs
\* All2All.gpu_run and then gpu_apply_exp
A2AGpuSteps(c) ==
    IF c = "All2AllSoftmax" THEN GpuRunSteps \o GpuApplyExpSteps ELSE GpuRunSteps

\* the device queue over the steps from the i-th on, started with the
\* kernels of queue in flight: the kernels in flight at the end, and whether
\* a kernel was enqueued, or a buffer marked as updated on the device, while
\* a kernel was in flight
RECURSIVE Launches(_, _, _)
Launches(queue, steps, i) ==
    IF i > Len(steps) THEN [queue |-> queue, hazard |-> FALSE]
    ELSE LET step == steps[i]
             after == IF step[1] = "enqueue" THEN queue \cup {step[2]}
                      ELSE IF step[1] = "wait" THEN queue \ {step[2]}
                      ELSE queue
             r == Launches(after, steps, i + 1)
         IN  [r EXCEPT !.hazard =
                 r.hazard \/ (step[1] \in {"enqueue", "update"} /\ queue # {})]

\* the defines initialize hands to build_program (BLOCK_SIZE and the dtype
\* are those of the one device and the one dtype of the model)
ConvDefines(L) ==
    [activation |-> L.s_activation, BATCH |-> L.batch_size,
     SX |-> L.sx, SY |-> L.sy, N_CHANNELS |-> L.n_channels,
     KX |-> L.kx, KY |-> L.ky, N_KERNELS |-> L.n_kernels,
     PAD_LEFT |-> L.padding[0], PAD_TOP |-> L.padding[1],
     PAD_RIGHT |-> L.padding[2], PAD_BOTTOM |-> L.padding[3],
     SLIDE_X |-> L.sliding[0], SLIDE_Y |-> L.sliding[1],
     WEIGHTS_TRANSPOSED |-> L.weights_transposed]

\* "%s/conv_%dx%dx%d_%dx%d_%d.cl" % (cache_dir, sx, sy, n_channels, kx, ky,
\* n_kernels): the name under which the program built with defines d is cached
ConvCacheFile(d) == <<"conv", d.SX, d.SY, d.N_CHANNELS, d.KX, d.KY, d.N_KERNELS>>

\* the program of a convolutional layer built with defines d
ConvProgram(d) == [some |-> TRUE, key |-> d, file |-> ConvCacheFile(d)]

ConvInitialize(seed) ==
    /\ cls \in ConvClasses
    /\ input.alloc
    /\ LET wstd == IF weights_stddev.some THEN weights_stddev.v
                   ELSE Min(GetWeightsMagnitude(cls, input, input_maxvle, kx, ky,
                                                weights_filling), WeightsCap)
           bstd == IF bias_stddev.some THEN bias_stddev.v ELSE wstd
           bsz == input.shape[0]
           syv == input.shape[1]
           sxv == input.shape[2]
           nch == Size(input) \div (bsz * sxv * syv)
           w == InitWeights(weights, n_kernels, kx * ky * nch, weights_filling,
                            wstd, weights_transposed, seed)
           b == InitBias(bias, n_kernels, bias_filling, bstd, seed + 1)
           bsz2 == IF unit_test THEN bsz * 2 ELSE bsz
           out == InitOutput(output, ConvOutputShape(bsz2, syv, sxv, kx, ky,
                                                     padding, sliding, n_kernels))
       IN  /\ s_activation' = ClassActivation(cls, s_activation)
           /\ weights_stddev' = Some(wstd)
           /\ bias_stddev' = Some(bstd)
           /\ batch_size' = bsz
           /\ sy' = syv
           /\ sx' = sxv
           /\ n_channels' = nch
           /\ weights' = w.mem
           /\ map_flags' =                      \* reset() of what is reallocated
                 [x \in Buffers |->
                     IF \/ x = "weights" /\ NeedsAlloc(weights, n_kernels * kx * ky * nch)
                        \/ x = "bias" /\ w.exc = "none" /\ NeedsAlloc(bias, n_kernels)
                        \/ x = "output" /\ w.exc = "none" /\ b.exc = "none"
                             /\ NeedsAlloc(output, Prod(ConvOutputShape(
                                    bsz2, syv, sxv, kx, ky, padding, sliding, n_kernels)))
                     THEN "unmapped"
                     ELSE map_flags[x]]
           /\ krn_' = IF device /\ w.exc = "none" /\ b.exc = "none"
                      THEN ConvProgram(ConvDefines(
                               [Self EXCEPT !.s_activation = ClassActivation(cls, s_activation),
                                            !.batch_size = bsz, !.sy = syv, !.sx = sxv,
                                            !.n_channels = nch]))
                      ELSE krn_
           /\ IF w.exc # "none"
              THEN /\ last_call' = [op |-> "initialize", exc |-> w.exc]
                   /\ initialized' = FALSE
                   /\ UNCHANGED <<bias, output, output_vv, output_maxvle>>
              ELSE /\ bias' = b.mem
                   /\ IF b.exc # "none"
                      THEN /\ last_call' = [op |-> "initialize", exc |-> b.exc]
                           /\ initialized' = FALSE
                           /\ UNCHANGED <<output, output_vv, output_maxvle>>
                      ELSE /\ last_call' = [op |-> "initialize", exc |-> "none"]
                           /\ initialized' = TRUE
                           /\ output' = IF unit_test THEN HeadRows(out, bsz) ELSE out
                           /\ output_vv' = IF unit_test THEN out ELSE output_vv
                           /\ output_maxvle' = ClassOutputMaxvle(cls, output_maxvle)
    /\ UNCHANGED <<err_y, err_h, global_alpha, global_lambda>>
    /\ UNCHANGED <<cls, device, queue_, kx, ky, n_kernels, padding, sliding, output_shape,
                   weights_transposed, weights_filling, bias_filling, unit_test,
                   input, max_idx, input_maxvle, weights_amplitude>>

\* output.vv after output.mem, which in the unit_test mode is its head and
\* shares its storage, became mem
WriteThrough(vv, mem, ut) ==
    IF ut /\ vv.alloc
    THEN [vv EXCEPT !.data = [t \in DOMAIN vv.data |->
                                 IF t \in DOMAIN mem.data THEN mem.data[t]
                                 ELSE vv.data[t]]]
    ELSE vv

ConvCpuRun ==
    /\ cls \in ConvClasses
    /\ initialized
    /\ LET r == CpuRun(Self, output)
       IN  /\ output' = r.mem
           /\ output_vv' = WriteThrough(output_vv, r.mem, unit_test)
           /\ last_call' = [op |-> "cpu_run", exc |-> r.exc]
    /\ map_flags' = RunSteps(map_flags, CpuRunSteps, 1).flags
    /\ UNCHANGED krn_
    /\ UNCHANGED <<err_y, err_h, global_alpha, global_lambda>>
    /\ UNCHANGED <<cls, device, queue_, kx, ky, n_kernels, padding, sliding, output_shape,
                   weights_transposed, weights_filling, bias_filling,
                   weights_stddev, bias_stddev, weights_amplitude, s_activation,
                   unit_test, input, weights, bias, max_idx,
                   input_maxvle, output_maxvle, batch_size, sx, sy, n_channels,
                   initialized>>

(***************************************************************************)
(* Conv.ocl_run.  The kernel source (conv.cl) is not part of the sources   *)
(* at hand; feed_layer is modelled from the documented contract: every     *)
(* output cell is the activation of the bias plus the dot product of the   *)
(* kernel with the input window, the input being extended by zeros.        *)
(***************************************************************************)
\* the input extended by virtual zero padding
PaddedInput(L, batch, y, x, c) ==
    IF y < 0 \/ y >= L.sy \/ x < 0 \/ x >= L.sx THEN 0
    ELSE L.input.data[((batch * L.sy + y) * L.sx + x) * L.n_channels + c]

\* element (k, q) of the logical (n_kernels x kx*ky*n_channels) matrix
LogicalWeight(L, k, q) ==
    IF L.weights_transposed
    THEN L.weights.data[q * L.n_kernels + k]
    ELSE L.weights.data[k * (L.kx * L.ky * L.n_channels) + q]

\* the dot product of kernel k with the window of output cell (i, j)
PaddedDot(L, batch, i, j, k) ==
    LET n == L.ky * L.kx * L.n_channels
        y0 == i * L.sliding[1] - L.padding[1]
        x0 == j * L.sliding[0] - L.padding[0]
    IN  Sum([q \in 0..(n - 1) |->
                PaddedInput(L, batch, y0 + (q \div (L.kx * L.n_channels)),
                            x0 + ((q \div L.n_channels) % L.kx), q % L.n_channels)
                * LogicalWeight(L, k, q)])

\* the value feed_layer stores at flat index t of the output buffer
FeedLayerCell(L, t) ==
    LET nx == CpuNx(L)
        ny == CpuNy(L)
        k == t % L.n_kernels
        j == (t \div L.n_kernels) % nx
        i == (t \div (L.n_kernels * nx)) % ny
        batch == t \div (L.n_kernels * nx * ny)
    IN  Activation(L.s_activation, PaddedDot(L, batch, i, j, k) + L.bias.data[k])

FeedLayer(L, out) ==
    LET n == L.batch_size * CpuNy(L) * CpuNx(L) * L.n_kernels
    IN  [out EXCEPT !.data =
            [t \in DOMAIN out.data |->
                IF t < n THEN FeedLayerCell(L, t) ELSE out.data[t]]]

ConvOclRun ==
    /\ cls \in ConvClasses
    /\ initialized
    /\ device
    /\ output' = FeedLayer(Self, output)
    /\ last_call' = [op |-> "ocl_run", exc |-> "none"]
    /\ map_flags' = RunSteps(map_flags, OclRunSteps, 1).flags
    /\ queue_' = Launches(queue_, OclRunSteps, 1).queue
    /\ UNCHANGED krn_
    /\ UNCHANGED <<err_y, err_h, global_alpha, global_lambda>>
    /\ UNCHANGED <<cls, device, kx, ky, n_kernels, padding, sliding, output_shape,
                   weights_transposed, weights_filling, bias_filling,
                   weights_stddev, bias_stddev, weights_amplitude, s_activation,
                   unit_test, input, weights, bias, max_idx, output_vv,
                   input_maxvle, output_maxvle, batch_size, sx, sy, n_channels,
                   initialized>>

(***************************************************************************)
(* All2All, All2AllTanh, All2AllSoftmax.  A is the layer: a record of the  *)
(* attributes a run reads.                                                 *)
(***************************************************************************)
\* output_shape=None, the default of All2All.__init__: no output shape given
NoneShape == -1

A2ASelf ==
    [cls |-> cls, weights_transposed |-> weights_transposed, input |-> input,
     weights |-> weights, bias |-> bias]

\* input.v.size // input.v.shape[0]
FanIn(inp) == Size(inp) \div inp.shape[0]

\* All2All.get_weights_amplitude and its overrides
GetWeightsAmplitude(c, inp, maxvle) ==
    LET m == IF c = "All2AllTanh" THEN MulFP(maxvle, TanhScale) ELSE maxvle
    IN  DivFP(9 * FP, m) \div FanIn(inp)

\* the weights after the weights block of All2All.initialize
A2AInitWeights(w, fan_out, fan_in, amplitude, transposed, seed) ==
    IF NeedsAlloc(w, fan_in * fan_out)
    THEN LET v == Array(Sh2(fan_out, fan_in),
                        UniformDraw(fan_in * fan_out, amplitude, seed))
         IN  IF transposed
             THEN Reshaped(Transposed(v), Sh2(fan_in, fan_out))
             ELSE v
    ELSE w

\* the bias after the bias block of All2All.initialize
A2AInitBias(b, fan_out, amplitude, seed) ==
    IF NeedsAlloc(b, fan_out)
    THEN Array(Sh1(fan_out), UniformDraw(fan_out, amplitude, seed))
    ELSE b

\* the output after the output block of All2All.initialize
A2AInitOutput(out, bsz, fan_out) ==
    IF NeedsAlloc(out, bsz * fan_out) THEN ZerosOut(Sh2(bsz, fan_out)) ELSE out

\* max_idx after All2AllSoftmax.initialize
A2AInitMaxIdx(m, bsz) ==
    IF NeedsAlloc(m, bsz) THEN Zeros(Sh1(bsz)) ELSE m

A2AClassActivation(c, s) == IF c = "All2AllTanh" THEN "ACTIVATION_TANH" ELSE s

\* the defines of the program All2All.initialize builds from the weights w
\* and the output out (BLOCK_SIZE is 1, so the aligned arrays are the arrays
\* and Y is Y_REAL; one dtype)
A2ADefines(act, transposed, w, out) ==
    LET output_size == Size(out) \div out.shape[0]
    IN  [WEIGHTS_TRANSPOSED |-> transposed, activation |-> act,
         H |-> Size(w) \div output_size, Y |-> output_size,
         Y_REAL |-> Size(out) \div out.shape[0], BATCH |-> out.shape[0]]

\* "%s/feed_%d_%d.cl" % (cache_dir, fan_in, fan_out): the name under which
\* the source of the program is written
A2ACacheFile(fan_in, fan_out) == <<"feed", fan_in, fan_out>>

\* self.krn_ after the device part of All2All.initialize: built when the
\* layer has a device and holds no kernel yet
A2AInitKrn(k, dv, act, transposed, inp, w, out) ==
    IF dv /\ ~k.some
    THEN [some |-> TRUE, key |-> A2ADefines(act, transposed, w, out),
          file |-> A2ACacheFile(FanIn(inp), Size(out) \div out.shape[0])]
    ELSE k

A2AInitialize(seed) ==
    /\ cls \in A2AClasses
    /\ input.alloc
    /\ s_activation' = A2AClassActivation(cls, s_activation)
    /\ LET amp == IF weights_amplitude.some THEN weights_amplitude.v
                  ELSE Min(GetWeightsAmplitude(cls, input, input_maxvle), WeightsCap)
           bsz == input.shape[0]
           out == A2AInitOutput(output, bsz, output_shape)
           w == A2AInitWeights(weights, output_shape, FanIn(input), amp,
                               weights_transposed, seed)
       IN  IF output_shape = NoneShape
           THEN \* numpy.prod(self.output_shape) is None: the product that
                \* gives n_weights raises; All2AllSoftmax.initialize hands
                \* None to config.get_itype_from_size before, which may raise
                \* as well
                /\ weights_amplitude' \in
                      (IF cls = "All2AllSoftmax" THEN {weights_amplitude, Some(amp)}
                                                 ELSE {Some(amp)})
                /\ UNCHANGED <<weights, bias, output, max_idx, krn_>>
                /\ initialized' = FALSE
                /\ last_call' = [op |-> "initialize", exc |-> "TypeError"]
           ELSE /\ weights_amplitude' = Some(amp)
                /\ weights' = w
                /\ bias' = A2AInitBias(bias, output_shape, amp, seed + 1)
                /\ output' = out
                /\ max_idx' = IF cls = "All2AllSoftmax"
                              THEN A2AInitMaxIdx(max_idx, out.shape[0])
                              ELSE max_idx
                /\ krn_' = A2AInitKrn(krn_, device,
                                      A2AClassActivation(cls, s_activation),
                                      weights_transposed, input, w, out)
                /\ initialized' = TRUE
                /\ last_call' = [op |-> "initialize", exc |-> "none"]
    /\ UNCHANGED map_flags
    /\ UNCHANGED <<err_y, err_h, global_alpha, global_lambda>>
    /\ UNCHANGED <<cls, device, queue_, kx, ky, n_kernels, padding, sliding, output_shape,
                   weights_transposed, weights_filling, bias_filling,
                   weights_stddev, bias_stddev, unit_test, input, output_vv,
                   input_maxvle, output_maxvle, batch_size, sx, sy, n_channels>>

\* DotCell of a run that reads the weights as (fan_out, fan_in) whatever
\* weights_transposed says; C4_FullyConnected tells the two apart
DotCellRowMajor(A, r, o) ==
    LET n == FanIn(A.input)
    IN  Sum([i \in 0..(n - 1) |-> A.input.data[r * n + i] * A.weights.data[o * n + i]])

\* numpy.dot(a, b, self.output.v), a the input as (batch, fan_in), b the
\* weights, transposed unless weights_transposed: element (r, o) of the
\* product
DotCell(A, r, o) ==
    LET n == FanIn(A.input)
        c == A.weights.shape[1]
    IN  Sum([i \in 0..(n - 1) |->
                A.input.data[r * n + i]
                * (IF A.weights_transposed
                   THEN A.weights.data[i * c + o]
                   ELSE A.weights.data[o * c + i])])

\* the shape of b: (inner, outer)
DotInner(A) ==
    IF A.weights_transposed THEN A.weights.shape[0] ELSE A.weights.shape[1]
DotOuter(A) ==
    IF A.weights_transposed THEN A.weights.shape[1] ELSE A.weights.shape[0]

\* All2All.cpu_run: [mem, exc]
A2ALinearRun(A, out) ==
    LET bsz == A.input.shape[0]
        n == DotOuter(A)
    IN  IF DotInner(A) # FanIn(A.input) \/ out.shape # Sh2(bsz, n)
        THEN [mem |-> out, exc |-> "ValueError"]           \* numpy.dot
        ELSE LET prod == [t \in 0..(bsz * n - 1) |->
                             [f |-> "id", x |-> DotCell(A, t \div n, t % n)]]
             IN  IF Size(A.bias) # n /\ Size(A.bias) # 1
                 THEN [mem |-> [out EXCEPT !.data = prod], exc |-> "ValueError"]
                 ELSE [mem |-> [out EXCEPT !.data =
                                  [t \in DOMAIN prod |->
                                      [f |-> "id",
                                       x |-> prod[t].x + A.bias.data[t % Size(A.bias)]]]],
                       exc |-> "none"]

\* All2AllTanh.cpu_run after the linear part
TanhRun(out) ==
    [out EXCEPT !.data = [t \in DOMAIN out.data |-> [f |-> "tanh", x |-> out.data[t].x]]]

\* ArgMaxFrom that never leaves its first candidate; C6_SoftmaxMaxIdx tells the
\* two apart
ArgMaxFromKeep(row, n, i, best) == best

\* sample.argmax(): the first index of the largest of row[0..n-1]
RECURSIVE ArgMaxFrom(_, _, _, _)
ArgMaxFrom(row, n, i, best) ==
    IF i >= n THEN best
    ELSE ArgMaxFrom(row, n, i + 1, IF row[i] > row[best] THEN i ELSE best)

ArgMax(row, n) == ArgMaxFrom(row, n, 1, 0)

\* the linear output of sample r
Sample(out, r) == [o \in 0..(out.shape[1] - 1) |-> out.data[r * out.shape[1] + o].x]

\* All2AllSoftmax.cpu_apply_exp: [mem, idx]
ApplyExp(out, idx) ==
    LET n == out.shape[1]
        im == [r \in 0..(out.shape[0] - 1) |-> ArgMax(Sample(out, r), n)]
    IN  [mem |-> [out EXCEPT !.data =
                     [t \in DOMAIN out.data |->
                         [f |-> "softmax",
                          x |-> out.data[t].x - Sample(out, t \div n)[im[t \div n]]]]],
         idx |-> [idx EXCEPT !.data = [r \in DOMAIN idx.data |->
                                          IF r < out.shape[0] THEN im[r] ELSE idx.data[r]]]]

A2ACpuRun ==
    /\ cls \in A2AClasses
    /\ initialized
    /\ LET r == A2ALinearRun(A2ASelf, output)
       IN  /\ last_call' = [op |-> "cpu_run", exc |-> r.exc]
           /\ IF r.exc # "none"
              THEN output' = r.mem /\ UNCHANGED max_idx
              ELSE IF cls = "All2AllTanh"
              THEN output' = TanhRun(r.mem) /\ UNCHANGED max_idx
              ELSE IF cls = "All2AllSoftmax"
              THEN /\ output' = ApplyExp(r.mem, max_idx).mem
                   /\ max_idx' = ApplyExp(r.mem, max_idx).idx
              ELSE output' = r.mem /\ UNCHANGED max_idx
    /\ UNCHANGED <<krn_, map_flags>>
    /\ UNCHANGED <<err_y, err_h, global_alpha, global_lambda>>
    /\ UNCHANGED <<cls, device, queue_, kx, ky, n_kernels, padding, sliding, output_shape,
                   weights_transposed, weights_filling, bias_filling,
                   weights_stddev, bias_stddev, weights_amplitude, s_activation,
                   unit_test, input, weights, bias, output_vv, input_maxvle,
                   output_maxvle, batch_size, sx, sy, n_channels, initialized>>

(***************************************************************************)
(* All2All.gpu_run.  The kernel sources (forward.cl, softmax.cl) are not   *)
(* part of the sources at hand; what the kernels leave in output and       *)
(* max_idx is modelled from the documented contract of the forward pass:   *)
(* the linear transform, the activation of the class, and for softmax the  *)
(* normalization of each row with its argmax recorded.                     *)
(***************************************************************************)
\* output and max_idx after the kernels of a layer A: [mem, idx]
A2AFeedLayer(A, out, idx) ==
    LET lin == A2ALinearRun(A, out).mem
    IN  IF A.cls = "All2AllTanh" THEN [mem |-> TanhRun(lin), idx |-> idx]
        ELSE IF A.cls = "All2AllSoftmax" THEN ApplyExp(lin, idx)
        ELSE [mem |-> lin, idx |-> idx]

A2AGpuRun ==
    /\ cls \in A2AClasses
    /\ initialized
    /\ device /\ krn_.some
    /\ LET r == A2AFeedLayer(A2ASelf, output, max_idx)
       IN  output' = r.mem /\ max_idx' = r.idx
    /\ queue_' = Launches(queue_, A2AGpuSteps(cls), 1).queue
    /\ last_call' = [op |-> "gpu_run", exc |-> "none"]
    /\ UNCHANGED <<krn_, map_flags>>
    /\ UNCHANGED <<err_y, err_h, global_alpha, global_lambda>>
    /\ UNCHANGED <<cls, device, kx, ky, n_kernels, padding, sliding, output_shape,
                   weights_transposed, weights_filling, bias_filling,
                   weights_stddev, bias_stddev, weights_amplitude, s_activation,
                   unit_test, input, weights, bias, output_vv, input_maxvle,
                   output_maxvle, batch_size, sx, sy, n_channels, initialized>>

(***************************************************************************)
(* Construction.                                                           *)
(***************************************************************************)
\* the input the upstream unit supplies: integers of -2..2
InputData(shape, seed) ==
    Array(shape, [t \in 0..(Prod(shape) - 1) |-> ((t * 3 + seed * 2 + 1) % 5) - 2])

Tuple4(a, b, c, d) == Sh4(a, b, c, d)

KernelFits(syv, sxv, kxv, kyv, pad) ==
    /\ sxv + pad[0] + pad[2] >= kxv
    /\ syv + pad[1] + pad[3] >= kyv

\* a forward layer has none of the attributes of a gradient descent unit
NoGD ==
    err_y = NoneVec /\ err_h = NoneVec /\ global_alpha = 0 /\ global_lambda = 0

\* Conv(workflow, n_kernels, kx, ky, padding, sliding, ...) with its input
\* linked
ConvConstructed(c, kxv, kyv, pad, sl, tr, wf, bf, wstd, ut, inp) ==
    /\ cls = c
    /\ kx = kxv /\ ky = kyv /\ n_kernels = NKernels
    /\ padding = pad /\ sliding = sl
    /\ output_shape = 0
    /\ weights_transposed = tr
    /\ weights_filling = wf /\ bias_filling = bf
    /\ weights_stddev = wstd /\ bias_stddev = NoneNum
    /\ weights_amplitude = NoneNum
    /\ s_activation = "ACTIVATION_LINEAR"
    /\ unit_test = ut
    /\ input = inp
    /\ weights = NoneVec /\ bias = NoneVec /\ output = NoneVec
    /\ max_idx = NoneVec /\ output_vv = NoneVec
    /\ input_maxvle = FP /\ output_maxvle = FP
    /\ batch_size = 0 /\ sx = 0 /\ sy = 0 /\ n_channels = 0
    /\ initialized = FALSE
    /\ NoGD
    /\ last_call = [op |-> "__init__", exc |-> "none"]

\* All2All(output_shape, weights_transposed, ...) with its input linked
A2AConstructed(c, fan_out, tr, inp) ==
    /\ cls = c
    /\ kx = 0 /\ ky = 0 /\ n_kernels = 0
    /\ padding = Tuple4(0, 0, 0, 0) /\ sliding = Sh2(1, 1)
    /\ output_shape = fan_out
    /\ weights_transposed = tr
    /\ weights_filling = "uniform" /\ bias_filling = "uniform"
    /\ weights_stddev = NoneNum /\ bias_stddev = NoneNum
    /\ weights_amplitude = NoneNum
    /\ s_activation = "ACTIVATION_LINEAR"
    /\ unit_test = FALSE
    /\ input = inp
    /\ weights = NoneVec /\ bias = NoneVec /\ output = NoneVec
    /\ max_idx = NoneVec /\ output_vv = NoneVec
    /\ input_maxvle = TanhMax /\ output_maxvle = FP
    /\ batch_size = 0 /\ sx = 0 /\ sy = 0 /\ n_channels = 0
    /\ initialized = FALSE
    /\ NoGD
    /\ last_call = [op |-> "__init__", exc |-> "none"]

(***************************************************************************)
(* What the owner of the layer does between calls.                         *)
(***************************************************************************)
\* the weights and bias a caller assigns to the layer before initialize
UserData(n) == [t \in 0..(n - 1) |-> ((t % 4) + 1) * FP]

\* the upstream unit links an input of another shape
LinkInput(inp) ==
    /\ inp.shape # input.shape
    /\ input' = inp
    /\ initialized' = FALSE
    /\ last_call' = [op |-> "link_input", exc |-> "none"]
    /\ map_flags' = [map_flags EXCEPT !["input"] = "unmapped"]
    /\ UNCHANGED krn_
    /\ UNCHANGED <<err_y, err_h, global_alpha, global_lambda>>
    /\ UNCHANGED <<cls, device, queue_, kx, ky, n_kernels, padding, sliding, output_shape,
                   weights_transposed, weights_filling, bias_filling,
                   weights_stddev, bias_stddev, weights_amplitude, s_activation,
                   unit_test, weights, bias, output, max_idx, output_vv,
                   input_maxvle, output_maxvle, batch_size, sx, sy, n_channels>>

\* layer.weights.mem = ..., layer.bias.mem = ... for the geometry at hand
AssignWeights ==
    /\ cls \in ConvClasses
    /\ LET rowlen == kx * ky * input.shape[3]
       IN  /\ weights' = Array(IF weights_transposed THEN Sh2(rowlen, n_kernels)
                                                     ELSE Sh2(n_kernels, rowlen),
                               UserData(n_kernels * rowlen))
           /\ bias' = Array(Sh1(n_kernels), UserData(n_kernels))
    /\ initialized' = FALSE
    /\ last_call' = [op |-> "assign_weights", exc |-> "none"]
    /\ UNCHANGED <<krn_, map_flags>>
    /\ UNCHANGED <<err_y, err_h, global_alpha, global_lambda>>
    /\ UNCHANGED <<cls, device, queue_, kx, ky, n_kernels, padding, sliding, output_shape,
                   weights_transposed, weights_filling, bias_filling,
                   weights_stddev, bias_stddev, weights_amplitude, s_activation,
                   unit_test, input, output, max_idx, output_vv,
                   input_maxvle, output_maxvle, batch_size, sx, sy, n_channels>>

\* layer.output_shape = ... of a fully connected layer
SetOutputShape(fan_out) ==
    /\ cls \in A2AClasses
    /\ fan_out # output_shape
    /\ output_shape' = fan_out
    /\ initialized' = FALSE
    /\ last_call' = [op |-> "set_output_shape", exc |-> "none"]
    /\ UNCHANGED <<krn_, map_flags>>
    /\ UNCHANGED <<err_y, err_h, global_alpha, global_lambda>>
    /\ UNCHANGED <<cls, device, queue_, kx, ky, n_kernels, padding, sliding,
                   weights_transposed, weights_filling, bias_filling,
                   weights_stddev, bias_stddev, weights_amplitude, s_activation,
                   unit_test, input, weights, bias, output, max_idx, output_vv,
                   input_maxvle, output_maxvle, batch_size, sx, sy, n_channels>>

\* the device side of a constructed layer: given a device or not, no kernel
\* program, nothing mapped
DeviceSide(dv) ==
    device = dv /\ krn_ = NoneKrn /\ map_flags = AllUnmapped /\ queue_ = {}

\* the convolutional layers of every geometry, constructed and linked
ConvLayers ==
    \E c \in ConvClasses, kxv \in KDims, kyv \in KDims,
       pad \in [0..3 -> Pads], sl \in [0..1 -> Slides],
       tr \in BOOLEAN, syv \in InDims, sxv \in InDims, seed \in DataSeeds :
        /\ KernelFits(syv, sxv, kxv, kyv, pad)
        /\ ConvConstructed(c, kxv, kyv, pad, sl, tr, "uniform", "uniform",
                           Some(FP), FALSE,
                           InputData(Sh4(Batch, syv, sxv, NChannels), seed))

Init == ConvLayers /\ DeviceSide(TRUE)

\* the first initialize of a constructed layer
ConvFirstInitialize ==
    /\ ~initialized
    /\ \E seed \in FillSeeds : ConvInitialize(seed)

Next ==
    \/ ConvFirstInitialize
    \/ ConvCpuRun
    \/ ConvOclRun

Spec == Init /\ [][Next]_vars

(***************************************************************************)
(* The fully connected layers: construction, initialize, host runs.        *)
(***************************************************************************)
A2ABatches == 1..2
A2ASeeds == 0..2

\* the output_shape a layer is constructed with: given, or left out
OutputShapes == (1..MaxFan) \cup {NoneShape}

InitA2A ==
    \E c \in A2AClasses, fan_in \in 1..MaxFan, fan_out \in OutputShapes,
       bsz \in A2ABatches, tr \in BOOLEAN, seed \in A2ASeeds :
        /\ A2AConstructed(c, fan_out, tr, InputData(Sh2(bsz, fan_in), seed))
        /\ DeviceSide(TRUE)

NextA2A ==
    \/ \E seed \in A2ASeeds : A2AInitialize(seed)
    \/ A2ACpuRun

SpecA2A == InitA2A /\ [][NextA2A]_vars

(***************************************************************************)
(* Repeated initialize: layers with the default padding and sliding,       *)
(* constructed without a device, whose input, weights or output shape are  *)
(* changed between the calls.                                              *)
(***************************************************************************)
AnyFilling == Fillings \cup {"bogus"}

ConvInputs == {InputData(Sh4(Batch, syv, sxv, NChannels), 0) : syv, sxv \in InDims}
A2AInputs == {InputData(Sh2(bsz, fan_in), 0) : bsz \in A2ABatches, fan_in \in 1..MaxFan}

InitReinit ==
    \/ \E c \in ConvClasses, kxv \in KDims, kyv \in KDims, tr \in BOOLEAN,
          wf \in AnyFilling, bf \in AnyFilling, ut \in BOOLEAN,
          wstd \in {NoneNum, Some(FP)}, inp \in ConvInputs :
           /\ KernelFits(inp.shape[1], inp.shape[2], kxv, kyv, Tuple4(0, 0, 0, 0))
           /\ ConvConstructed(c, kxv, kyv, Tuple4(0, 0, 0, 0), Sh2(1, 1), tr, wf, bf,
                              wstd, ut, inp)
           /\ DeviceSide(FALSE)
    \/ \E c \in A2AClasses, fan_out \in 1..MaxFan, tr \in BOOLEAN, inp \in A2AInputs :
           A2AConstructed(c, fan_out, tr, inp) /\ DeviceSide(FALSE)

NextReinit ==
    \/ \E seed \in FillSeeds : ConvInitialize(seed)
    \/ \E seed \in FillSeeds : A2AInitialize(seed)
    \/ \E inp \in ConvInputs :
          /\ cls \in ConvClasses
          /\ KernelFits(inp.shape[1], inp.shape[2], kx, ky, padding)
          /\ LinkInput(inp)
    \/ \E inp \in A2AInputs : cls \in A2AClasses /\ LinkInput(inp)
    \/ AssignWeights
    \/ \E fan_out \in 1..MaxFan : SetOutputShape(fan_out)

SpecReinit == InitReinit /\ [][NextReinit]_vars

(***************************************************************************)
(* Layers of class Conv whose activation selector the owner (a subclass    *)
(* or a caller) sets before initialize, to a known selector or to one      *)
(* cpu_run does not know.                                                  *)
(***************************************************************************)
Selectors == {"ACTIVATION_LINEAR", "ACTIVATION_SIGMOID"}

\* layer.s_activation = s, as the initialize of a subclass does before it
\* calls Conv.initialize
SetActivation(s) ==
    /\ cls = "Conv"
    /\ ~initialized
    /\ s # s_activation
    /\ s_activation' = s
    /\ last_call' = [op |-> "set_activation", exc |-> "none"]
    /\ UNCHANGED <<krn_, map_flags>>
    /\ UNCHANGED <<err_y, err_h, global_alpha, global_lambda>>
    /\ UNCHANGED <<cls, device, queue_, kx, ky, n_kernels, padding, sliding, output_shape,
                   weights_transposed, weights_filling, bias_filling,
                   weights_stddev, bias_stddev, weights_amplitude,
                   unit_test, input, weights, bias, output, max_idx, output_vv,
                   input_maxvle, output_maxvle, batch_size, sx, sy, n_channels,
                   initialized>>

\* a linear Conv constructed without a device (device=None)
InitSel == ConvLayers /\ cls = "Conv" /\ DeviceSide(FALSE)

NextSel ==
    \/ \E s \in Selectors : SetActivation(s)
    \/ ConvFirstInitialize
    \/ ConvCpuRun

SpecSel == InitSel /\ [][NextSel]_vars

(***************************************************************************)
(* The magnitude heuristic: layers constructed without weights_stddev /    *)
(* weights_amplitude, whose input carries a supposed maximum value that    *)
(* the upstream unit (or the constructor argument input_maxvle) sets       *)
(* before initialize.                                                      *)
(***************************************************************************)
\* supposed maximum values of the input: -1.0, 0.1, 1.0, 10.0
MaxVles == {-FP, FP \div 10, FP, 10 * FP}

\* input.supposed_maxvle = v (Conv), input_maxvle = v (All2All), while the
\* magnitude has not been derived yet
SetInputMaxvle(v) ==
    /\ ~weights_stddev.some /\ ~weights_amplitude.some
    /\ v # input_maxvle
    /\ input_maxvle' = v
    /\ last_call' = [op |-> "set_input_maxvle", exc |-> "none"]
    /\ UNCHANGED <<krn_, map_flags>>
    /\ UNCHANGED <<err_y, err_h, global_alpha, global_lambda>>
    /\ UNCHANGED <<cls, device, queue_, kx, ky, n_kernels, padding, sliding, output_shape,
                   weights_transposed, weights_filling, bias_filling,
                   weights_stddev, bias_stddev, weights_amplitude, s_activation,
                   unit_test, input, weights, bias, output, max_idx, output_vv,
                   output_maxvle, batch_size, sx, sy, n_channels, initialized>>

InitMag ==
    \/ \E c \in ConvClasses, kxv \in KDims, kyv \in KDims, wf \in Fillings,
          inp \in ConvInputs :
           /\ KernelFits(inp.shape[1], inp.shape[2], kxv, kyv, Tuple4(0, 0, 0, 0))
           /\ ConvConstructed(c, kxv, kyv, Tuple4(0, 0, 0, 0), Sh2(1, 1), FALSE, wf,
                              "uniform", NoneNum, FALSE, inp)
           /\ DeviceSide(TRUE)
    \/ \E c \in A2AClasses, fan_out \in 1..MaxFan, inp \in A2AInputs :
           A2AConstructed(c, fan_out, FALSE, inp) /\ DeviceSide(TRUE)

NextMag ==
    \/ \E v \in MaxVles : SetInputMaxvle(v)
    \/ \E seed \in FillSeeds : ConvInitialize(seed)
    \/ \E seed \in FillSeeds : A2AInitialize(seed)

SpecMag == InitMag /\ [][NextMag]_vars

(***************************************************************************)
(* Repeated initialize of layers with a device: the kernel program the     *)
(* layer holds while its input or output shape are changed between the     *)
(* calls.                                                                  *)
(***************************************************************************)
InitKrn ==
    \/ \E c \in ConvClasses, kxv \in KDims, kyv \in KDims, tr \in BOOLEAN,
          inp \in ConvInputs :
           /\ KernelFits(inp.shape[1], inp.shape[2], kxv, kyv, Tuple4(0, 0, 0, 0))
           /\ ConvConstructed(c, kxv, kyv, Tuple4(0, 0, 0, 0), Sh2(1, 1), tr,
                              "uniform", "uniform", Some(FP), FALSE, inp)
           /\ DeviceSide(TRUE)
    \/ \E c \in A2AClasses, fan_out \in 1..MaxFan, inp \in A2AInputs :
           A2AConstructed(c, fan_out, FALSE, inp) /\ DeviceSide(TRUE)

NextKrn ==
    \/ \E seed \in FillSeeds : ConvInitialize(seed)
    \/ \E seed \in FillSeeds : A2AInitialize(seed)
    \/ \E inp \in ConvInputs :
          /\ cls \in ConvClasses
          /\ KernelFits(inp.shape[1], inp.shape[2], kx, ky, padding)
          /\ LinkInput(inp)
    \/ \E inp \in A2AInputs : cls \in A2AClasses /\ LinkInput(inp)
    \/ \E fan_out \in 1..MaxFan : SetOutputShape(fan_out)

SpecKrn == InitKrn /\ [][NextKrn]_vars

(***************************************************************************)
(* Device runs of layers with a device: the kernels in flight.             *)
(***************************************************************************)
NextGpu ==
    \/ ConvFirstInitialize
    \/ ~initialized /\ \E seed \in FillSeeds : A2AInitialize(seed)
    \/ ConvOclRun
    \/ A2AGpuRun

SpecGpu == InitKrn /\ [][NextGpu]_vars

(***************************************************************************)
(* Back propagation of the convolutional layer.  GradientDescentConv       *)
(* (gd_conv.py) is not part of the sources at hand, only its unit test is; *)
(* the unit is modelled from the documented contract of the backward pass, *)
(* over the windows of the forward pass, and run on the fixtures of the    *)
(* test.  Inputs and errors are integers, weights, bias and the input      *)
(* error are fixed-point numbers.                                          *)
(***************************************************************************)
Sh3(a, b, c) == [d \in 0..2 |-> IF d = 0 THEN a ELSE IF d = 1 THEN b ELSE c]

\* a literal array: the elements of the sequence s, scaled by unit
Literal(s, unit) == [t \in 0..(Len(s) - 1) |-> s[t + 1] * unit]

\* 0.01 as a fixed-point number: the literals with two decimals are written
\* in hundredths
Hundredth == FP \div 100

\* test_err_h: inp, a, weights, bias, err_y, the layer, and the expected err_h
FixtureErrH ==
    [kx |-> 3, ky |-> 3, n_kernels |-> 2,
     padding |-> Tuple4(0, 0, 0, 0), sliding |-> Sh2(1, 1),
     inp |-> Array(Sh4(1, 5, 5, 1), Literal(
         <<-1, 0, 2, 0, 3,
           0, 1, -2, 1, 2,
           2, 0, 1, 1, 0,
           -1, 1, 1, 0, 2,
           1, 0, 1, 0, 1>>, 1)),
     a |-> Array(Sh2(9, 9), Literal(
         <<-1, 0, 2, 0, 1, -2, 2, 0, 1,
           0, 2, 0, 1, -2, 1, 0, 1, 1,
           2, 0, 3, -2, 1, 2, 1, 1, 0,
           0, 1, -2, 2, 0, 1, -1, 1, 1,
           1, -2, 1, 0, 1, 1, 1, 1, 0,
           -2, 1, 2, 1, 1, 0, 1, 0, 2,
           2, 0, 1, -1, 1, 1, 1, 0, 1,
           0, 1, 1, 1, 1, 0, 0, 1, 0,
           1, 1, 0, 1, 0, 2, 1, 0, 1>>, 1)),
     weights |-> Array(Sh2(2, 9), Literal(
         <<-1, -1, 4, 1, 8, -1, -1, 3, 2,
           2, 1, -1, 3, 0, 1, 4, 1, 3>>, FP)),
     bias |-> Array(Sh1(2), Literal(<<10, -10>>, FP)),
     err_y |-> Array(Sh3(1, 9, 2), Literal(
         <<-1, 3, 8, 2, 0, 1, 4, -1, -1, 2, 0, 1, -2, 3, 1, 2, 1, 1>>, 1)),
     t |-> Array(Sh4(1, 5, 5, 1), Literal(
         <<7, 0, -11, 31, -1,
           2, 6, 93, -11, 0,
           22, 45, 18, 28, 7,
           -1, 11, 25, 14, 3,
           14, 4, 13, 12, 5>>, FP))]

\* test_padding_sliding
FixturePaddingSliding ==
    [kx |-> 3, ky |-> 3, n_kernels |-> 2,
     padding |-> Tuple4(1, 2, 3, 4), sliding |-> Sh2(2, 3),
     inp |-> Array(Sh4(1, 5, 5, 1), Literal(
         <<1, 2, 3, 2, 1,
           0, 1, 2, 1, 0,
           0, 1, 0, 1, 0,
           2, 0, 1, 0, 2,
           1, 0, 1, 0, 1>>, 1)),
     a |-> Array(Sh2(12, 9), Literal(
         <<0, 0, 0, 0, 0, 0, 0, 1, 2,
           0, 0, 0, 0, 0, 0, 2, 3, 2,
           0, 0, 0, 0, 0, 0, 2, 1, 0,
           0, 0, 0, 0, 0, 0, 0, 0, 0,
           0, 0, 1, 0, 0, 1, 0, 2, 0,
           1, 2, 1, 1, 0, 1, 0, 1, 0,
           1, 0, 0, 1, 0, 0, 0, 2, 0,
           0, 0, 0, 0, 0, 0, 0, 0, 0,
           0, 1, 0, 0, 0, 0, 0, 0, 0,
           0, 1, 0, 0, 0, 0, 0, 0, 0,
           0, 1, 0, 0, 0, 0, 0, 0, 0,
           0, 0, 0, 0, 0, 0, 0, 0, 0>>, 1)),
     weights |-> Array(Sh2(2, 9), Literal(
         <<-100, -100, -100, -100, 800, -100, -100, -100, -100,
           110, 210, 310, -110, -50, 130, 170, -140, 5>>, Hundredth)),
     bias |-> Array(Sh1(2), Literal(<<10, -10>>, FP)),
     err_y |-> Array(Sh3(1, 12, 2), Literal(
         <<-1, 3, 8, 2, 0, 1, 4, -1, -1, 2, 0, 1, -2, 3, 1, 2, 1, 1,
           1, -2, 0, 5, 2, 3>>, 1)),
     t |-> Array(Sh4(1, 5, 5, 1), Literal(
         <<-320, -345, -1080, -620, -140,
           520, 830, 210, 840, 830,
           -900, 250, -50, 0, -1750,
           -180, 280, -140, 715, -220,
           110, -110, -520, -170, 1050>>, Hundredth))]

Fixtures == {FixtureErrH, FixturePaddingSliding}

\* the learning rates and weight decays of the unit: fixed-point numbers
Alphas == {FP \div 100, FP \div 10, FP \div 2, FP}
Lambdas == {0, FP \div 10, FP \div 2, FP}

\* element q of the forward input window of output position (batch, i, j):
\* the input under the window, zero where the window lies in the padding
GDPatch(L, batch, i, j, q) ==
    LET ch == L.n_channels
        a == q \div (L.kx * ch)
        b == (q \div ch) % L.kx
        c == q % ch
        wi == WindowI(L, i)
        wj == WindowJ(L, j)
    IN  IF /\ wi.cut1 <= a /\ a < wi.cut2
           /\ wj.cut1 <= b /\ b < wj.cut2
        THEN L.input.data[Flat4(L.input.shape, batch, wi.in1 + a - wi.cut1,
                                wj.in1 + b - wj.cut1, c)]
        ELSE 0

\* correlate(err_y, input_patches): element (k, q) of err_y^T . patches
GDCorrelate(L, err, k, q) ==
    LET nx == CpuNx(L)
        ny == CpuNy(L)
    IN  Sum([p \in 0..(L.batch_size * ny * nx - 1) |->
                err.data[p * L.n_kernels + k]
                * GDPatch(L, p \div (ny * nx), (p % (ny * nx)) \div nx, p % nx, q)])

\* weights <- weights - (learning_rate / batch_size) * correlate(err_y,
\* input_patches) - (learning_rate * weight_decay) * weights
GDWeightsUpdate(L, err, alpha, lambda) ==
    LET rowlen == L.kx * L.ky * L.n_channels
    IN  [L.weights EXCEPT !.data =
            [t \in DOMAIN L.weights.data |->
                L.weights.data[t]
                - (alpha * GDCorrelate(L, err, t \div rowlen, t % rowlen))
                      \div L.batch_size
                - MulFP(MulFP(alpha, lambda), L.weights.data[t])]]

\* bias <- bias - (learning_rate / batch_size) * (sum of err_y over batch and
\* spatial positions)
GDBiasUpdate(L, err, alpha) ==
    LET n == Size(err) \div L.n_kernels
    IN  [L.bias EXCEPT !.data =
            [k \in DOMAIN L.bias.data |->
                L.bias.data[k]
                - (alpha * Sum([p \in 0..(n - 1) |-> err.data[p * L.n_kernels + k]]))
                      \div L.batch_size]]

\* err_h: each input position accumulates err_y times the kernel weight over
\* every output position whose forward window covers it and every kernel
GDErrH(L, err) ==
    LET nx == CpuNx(L)
        ny == CpuNy(L)
        ch == L.n_channels
        rowlen == L.kx * L.ky * ch
        At(batch, y, x, c) ==
            Sum([r \in 0..(ny * nx * L.n_kernels - 1) |->
                    LET k == r % L.n_kernels
                        i == (r \div L.n_kernels) \div nx
                        j == (r \div L.n_kernels) % nx
                        wi == WindowI(L, i)
                        wj == WindowJ(L, j)
                    IN  IF /\ wi.in1 <= y /\ y < wi.in2
                           /\ wj.in1 <= x /\ x < wj.in2
                        THEN err.data[((batch * ny + i) * nx + j) * L.n_kernels + k]
                             * L.weights.data[k * rowlen
                                   + ((y - wi.in1 + wi.cut1) * L.kx
                                      + (x - wj.in1 + wj.cut1)) * ch + c]
                        ELSE 0])
        s == L.input.shape
    IN  Array(s, [t \in 0..(Prod(s) - 1) |->
                     At(t \div (s[1] * s[2] * s[3]), (t \div (s[2] * s[3])) % s[1],
                        (t \div s[3]) % s[2], t % s[3])])

\* the unit of a fixture of the test, constructed with c.h, c.weights,
\* c.bias, c.err_y and c.y assigned
GDConstructed(f, alpha, lambda) ==
    /\ cls = "GradientDescentConv"
    /\ kx = f.kx /\ ky = f.ky /\ n_kernels = f.n_kernels
    /\ padding = f.padding /\ sliding = f.sliding
    /\ output_shape = 0
    /\ weights_transposed = FALSE
    /\ weights_filling = "uniform" /\ bias_filling = "uniform"
    /\ weights_stddev = NoneNum /\ bias_stddev = NoneNum
    /\ weights_amplitude = NoneNum
    /\ s_activation = "ACTIVATION_LINEAR"
    /\ unit_test = TRUE
    /\ input = f.inp
    /\ weights = f.weights /\ bias = f.bias /\ output = f.err_y
    /\ max_idx = NoneVec /\ output_vv = NoneVec
    /\ input_maxvle = FP /\ output_maxvle = FP
    /\ batch_size = 0 /\ sx = 0 /\ sy = 0 /\ n_channels = 0
    /\ initialized = FALSE
    /\ err_y = f.err_y /\ err_h = NoneVec
    /\ global_alpha = alpha /\ global_lambda = lambda
    /\ last_call = [op |-> "__init__", exc |-> "none"]

\* c.initialize(device): the geometry of the input, and err_h allocated
GDInitialize ==
    /\ cls = "GradientDescentConv"
    /\ ~initialized
    /\ batch_size' = input.shape[0]
    /\ sy' = input.shape[1] /\ sx' = input.shape[2]
    /\ n_channels' = Size(input) \div (input.shape[0] * input.shape[1] * input.shape[2])
    /\ err_h' = Zeros(input.shape)
    /\ initialized' = TRUE
    /\ last_call' = [op |-> "initialize", exc |-> "none"]
    /\ UNCHANGED <<cls, device, kx, ky, n_kernels, padding, sliding, output_shape,
                   weights_transposed, weights_filling, bias_filling,
                   weights_stddev, bias_stddev, weights_amplitude, s_activation,
                   unit_test, input, weights, bias, output, max_idx, output_vv,
                   input_maxvle, output_maxvle, krn_, map_flags, queue_,
                   err_y, global_alpha, global_lambda>>

\* c.gpu_err_h_update()
GpuErrHUpdate ==
    /\ cls = "GradientDescentConv"
    /\ last_call = [op |-> "initialize", exc |-> "none"]
    /\ err_h' = GDErrH(Self, err_y)
    /\ last_call' = [op |-> "gpu_err_h_update", exc |-> "none"]
    /\ UNCHANGED <<cls, device, kx, ky, n_kernels, padding, sliding, output_shape,
                   weights_transposed, weights_filling, bias_filling,
                   weights_stddev, bias_stddev, weights_amplitude, s_activation,
                   unit_test, input, weights, bias, output, max_idx, output_vv,
                   input_maxvle, output_maxvle, batch_size, sx, sy, n_channels,
                   initialized, krn_, map_flags, queue_,
                   err_y, global_alpha, global_lambda>>

\* c.gpu_weights_update()
GpuWeightsUpdate ==
    /\ cls = "GradientDescentConv"
    /\ last_call = [op |-> "gpu_err_h_update", exc |-> "none"]
    /\ weights' = GDWeightsUpdate(Self, err_y, global_alpha, global_lambda)
    /\ bias' = GDBiasUpdate(Self, err_y, global_alpha)
    /\ last_call' = [op |-> "gpu_weights_update", exc |-> "none"]
    /\ UNCHANGED <<cls, device, kx, ky, n_kernels, padding, sliding, output_shape,
                   weights_transposed, weights_filling, bias_filling,
                   weights_stddev, bias_stddev, weights_amplitude, s_activation,
                   unit_test, input, output, max_idx, output_vv,
                   input_maxvle, output_maxvle, batch_size, sx, sy, n_channels,
                   initialized, krn_, map_flags, queue_,
                   err_y, err_h, global_alpha, global_lambda>>

InitGD ==
    \E f \in Fixtures, alpha \in Alphas, lambda \in Lambdas :
        GDConstructed(f, alpha, lambda) /\ DeviceSide(TRUE)

NextGD ==
    \/ GDInitialize
    \/ GpuErrHUpdate
    \/ GpuWeightsUpdate

SpecGD == InitGD /\ [][NextGD]_vars

\* the fixture of the test the unit was constructed from
Fixture == CHOOSE f \in Fixtures : f.inp = input /\ f.padding = padding

\* weights_new of the test: numpy.dot(b.transpose(), a) scaled by
\* -(global_alpha / batch_size), plus weights * -(global_alpha *
\* global_lambda), added to weights
TestWeightsNew(f, alpha, lambda) ==
    LET batch == f.err_y.shape[0]
        rows == Size(f.err_y) \div f.n_kernels          \* b: (rows, n_kernels)
        cols == f.a.shape[1]
        dot(k, q) == Sum([p \in 0..(rows - 1) |->
                             f.err_y.data[p * f.n_kernels + k] * f.a.data[p * cols + q]])
    IN  [t \in DOMAIN f.weights.data |->
            f.weights.data[t]
            + (-((alpha * dot(t \div cols, t % cols)) \div batch)
               - MulFP(MulFP(alpha, lambda), f.weights.data[t]))]

\* bias_new of the test: b.sum(axis=0) scaled by -(global_alpha /
\* batch_size), added to bias
TestBiasNew(f, alpha) ==
    LET batch == f.err_y.shape[0]
        rows == Size(f.err_y) \div f.n_kernels
    IN  [k \in DOMAIN f.bias.data |->
            f.bias.data[k]
            - (alpha * Sum([p \in 0..(rows - 1) |-> f.err_y.data[p * f.n_kernels + k]]))
                  \div batch]

(***************************************************************************)
(* The overflow check of the unit tests (root.common.unit_test): layers    *)
(* whose input is replaced by one of another batch size or extent between  *)
(* the calls of initialize, and their host runs.                           *)
(***************************************************************************)
UTInputs ==
    {InputData(Sh4(b, syv, sxv, NChannels), 0) :
        b \in 1..(Batch + 1), syv \in InDims, sxv \in InDims}

InitUT ==
    \E kxv \in KDims, kyv \in KDims, inp \in UTInputs :
        /\ KernelFits(inp.shape[1], inp.shape[2], kxv, kyv, Tuple4(0, 0, 0, 0))
        /\ ConvConstructed("Conv", kxv, kyv, Tuple4(0, 0, 0, 0), Sh2(1, 1), FALSE,
                           "uniform", "uniform", Some(FP), TRUE, inp)
        /\ DeviceSide(FALSE)

NextUT ==
    \/ \E seed \in FillSeeds : ConvInitialize(seed)
    \/ \E inp \in UTInputs :
          /\ KernelFits(inp.shape[1], inp.shape[2], kx, ky, padding)
          /\ LinkInput(inp)
    \/ ConvCpuRun

SpecUT == InitUT /\ [][NextUT]_vars

(***************************************************************************)
(* Host runs, device runs and the debug statistics of run() on one layer   *)
(* with a device: which side holds each of the four buffers.               *)
(***************************************************************************)
\* print_debug_data, which run() calls after cpu_run or ocl_run, with the
\* DEBUG level enabled
PrintDebugData ==
    /\ cls \in ConvClasses
    /\ initialized
    /\ last_call.op \in {"cpu_run", "ocl_run"}
    /\ map_flags' = RunSteps(map_flags, DebugSteps, 1).flags
    /\ last_call' = [op |-> "print_debug_data", exc |-> "none"]
    /\ UNCHANGED krn_
    /\ UNCHANGED <<err_y, err_h, global_alpha, global_lambda>>
    /\ UNCHANGED <<cls, device, queue_, kx, ky, n_kernels, padding, sliding, output_shape,
                   weights_transposed, weights_filling, bias_filling,
                   weights_stddev, bias_stddev, weights_amplitude, s_activation,
                   unit_test, input, weights, bias, output, max_idx, output_vv,
                   input_maxvle, output_maxvle, batch_size, sx, sy, n_channels,
                   initialized>>

\* the layers without padding, constructed with a device
InitMap == ConvLayers /\ padding = Tuple4(0, 0, 0, 0) /\ DeviceSide(TRUE)

NextMap ==
    \/ ConvFirstInitialize
    \/ ConvCpuRun
    \/ ConvOclRun
    \/ PrintDebugData

SpecMap == InitMap /\ [][NextMap]_vars

(***************************************************************************)
(* Properties.                                                             *)
(***************************************************************************)
Returned(op) == last_call = [op |-> op, exc |-> "none"]

IsConv == cls \in ConvClasses

\* C1: after Conv.cpu_run every output cell (batch, i, j, k) is the
\* activation of bias[k] plus the dot product of kernel k with the window of
\* the zero-padded input, also where the window lies wholly in the padding
\* (stated for layers whose weights are not transposed).
C1_EveryCellIsPaddedConv ==
    (IsConv /\ ~weights_transposed /\ Returned("cpu_run")) =>
        \A t \in DOMAIN output.data : output.data[t] = FeedLayerCell(Self, t)

\* floor((input_dim + pad_before + pad_after - kernel_dim) / stride) + 1
Extent(input_dim, pad_before, pad_after, kernel_dim, stride) ==
    (input_dim + pad_before + pad_after - kernel_dim) \div stride + 1

\* C2: the output allocated by Conv.initialize has the shape (batch, ny, nx,
\* n_kernels) with ny and nx given by the extent formula, and cpu_run scans
\* the same ny x nx positions.
C2_OutputExtent ==
    (IsConv /\ initialized) =>
        LET ny == Extent(input.shape[1], padding[1], padding[3], ky, sliding[1])
            nx == Extent(input.shape[2], padding[0], padding[2], kx, sliding[0])
        IN  /\ output.shape = Sh4(input.shape[0], ny, nx, n_kernels)
            /\ CpuNy(Self) = output.shape[1]
            /\ CpuNx(Self) = output.shape[2]

\* C2 witness: a run over a 2 x 4 grid whose row extent is rounded down
C2_Witness ==
    /\ IsConv /\ Returned("cpu_run")
    /\ sliding[1] = 2 /\ ky = 1 /\ input.shape[1] + padding[1] + padding[3] = 4
    /\ output.shape[1] = 2 /\ output.shape[2] = 4

\* the positions of [lo, hi)
Range(lo, hi) == {y \in lo..(hi - 1) : TRUE}

\* the property of C3 on one axis: w the window of the code, pos the output
\* position
WindowIsIntersection(w, pos, stride, pad_before, kernel_dim, input_dim) ==
    LET full_start == pos * stride - pad_before
        valid == Range(full_start, full_start + kernel_dim) \cap Range(0, input_dim)
        read == {PySliceStart(input_dim, w.in1, w.in2) + d :
                    d \in 0..(PySliceLen(input_dim, w.in1, w.in2) - 1)}
        used == {PySliceStart(kernel_dim, w.cut1, w.cut2) + d :
                    d \in 0..(PySliceLen(kernel_dim, w.cut1, w.cut2) - 1)}
    IN  /\ read = valid
        /\ used = {y - full_start : y \in valid}
        /\ valid # {} => (0 <= w.cut1 /\ w.cut1 <= w.cut2 /\ w.cut2 <= kernel_dim)

\* C3: on each axis the input range read for an output position is the
\* intersection of [pos*stride - pad, pos*stride - pad + kernel_dim) with
\* [0, input_dim), the kernel offsets used are that intersection shifted by
\* -(pos*stride - pad), and they lie within [0, kernel_dim] when it is not
\* empty.
C3_WindowBounds ==
    (IsConv /\ initialized) =>
        /\ \A i \in 0..(CpuNy(Self) - 1) :
              WindowIsIntersection(WindowI(Self, i), i, sliding[1], padding[1], ky, sy)
        /\ \A j \in 0..(CpuNx(Self) - 1) :
              WindowIsIntersection(WindowJ(Self, j), j, sliding[0], padding[0], kx, sx)

\* C3 witness: a run one of whose windows is clipped on the row axis and
\* lies wholly in the padding on the column axis
C3_Witness ==
    /\ IsConv /\ Returned("cpu_run")
    /\ \E i \in 0..(CpuNy(Self) - 1) :
          LET w == WindowI(Self, i) IN w.in2 - w.in1 > 0 /\ w.in2 - w.in1 < ky
    /\ \E j \in 0..(CpuNx(Self) - 1) :
          LET w == WindowJ(Self, j) IN w.in2 = w.in1

\* the layer holding the same logical weights in the other orientation
Twin(L) ==
    [L EXCEPT !.weights_transposed = ~L.weights_transposed,
              !.weights = Transposed(L.weights)]

\* C5: a Conv layer with weights_transposed set runs on the host like the
\* layer holding the same logical weights untransposed: the run returns and
\* leaves the same output.
C5_TransposedSameOutput ==
    (IsConv /\ weights_transposed /\ last_call.op = "cpu_run") =>
        /\ last_call.exc = "none"
        /\ output = CpuRun(Twin(Self), output).mem

\* C7: the host run and the accelerator run of the same layer leave the same
\* output (stated for layers whose weights are not transposed).
C7_HostEqualsAccelerator ==
    (IsConv /\ ~weights_transposed /\ initialized) =>
        LET host == CpuRun(Self, output)
        IN  host.exc = "none" /\ host.mem = FeedLayer(Self, output)

\* weights[o][i] of a fully connected layer: the weight of input i in output
\* o, whatever the orientation of the storage
LogicalW(o, i) ==
    IF weights_transposed
    THEN weights.data[i * weights.shape[1] + o]
    ELSE weights.data[o * weights.shape[1] + i]

\* C4: after All2All.cpu_run (and the linear part of All2AllTanh.cpu_run)
\* output[b][o] is the sum over i of input[b][i] * weights[o][i] plus bias[o],
\* in both orientations of the weight storage: the weights initialize drew
\* as an (out, in) matrix are the ones the run uses, and the layer holding
\* them in the other orientation computes the same output.
C4_FullyConnected ==
    (cls \in {"All2All", "All2AllTanh"} /\ Returned("cpu_run")) =>
        LET n == FanIn(input)
            m == output_shape
        IN  /\ output.shape = Sh2(input.shape[0], m)
            /\ \A r \in 0..(input.shape[0] - 1), o \in 0..(m - 1) :
                  /\ output.data[r * m + o].f = (IF cls = "All2All" THEN "id" ELSE "tanh")
                  /\ output.data[r * m + o].x =
                        Sum([i \in 0..(n - 1) |-> input.data[r * n + i] * LogicalW(o, i)])
                        + bias.data[o]
            /\ \E seed \in A2ASeeds :
                  \A o \in 0..(m - 1), i \in 0..(n - 1) :
                      LogicalW(o, i) = UniformDraw(n * m, weights_amplitude.v, seed)[o * n + i]
            /\ A2ALinearRun(Twin(A2ASelf), output) = A2ALinearRun(A2ASelf, output)

\* C4 witness: a run of a layer of 2 inputs and 3 outputs on a batch of 2,
\* with the weights stored transposed
C4_Witness ==
    /\ cls = "All2All" /\ Returned("cpu_run") /\ weights_transposed
    /\ weights.shape = Sh2(2, 3) /\ input.shape[0] = 2

\* the linear output input . weights + bias of sample r, output o
Linear(r, o) == DotCell(A2ASelf, r, o) + bias.data[o]

\* C6: after All2AllSoftmax.cpu_run max_idx[r] is the argmax (the first index
\* of the largest element) of row r of the linear output, and that maximum
\* was subtracted from the row before the exponentiation.
C6_SoftmaxMaxIdx ==
    (cls = "All2AllSoftmax" /\ Returned("cpu_run")) =>
        \A r \in 0..(input.shape[0] - 1) :
            LET im == max_idx.data[r]
            IN  /\ im \in 0..(output_shape - 1)
                /\ \A o \in 0..(output_shape - 1) :
                      /\ Linear(r, o) <= Linear(r, im)
                      /\ o < im => Linear(r, o) < Linear(r, im)
                      /\ output.data[r * output_shape + o] =
                            [f |-> "softmax", x |-> Linear(r, o) - Linear(r, im)]

\* C6 witness: a run on 3 outputs where the largest is not the first
C6_Witness ==
    /\ cls = "All2AllSoftmax" /\ Returned("cpu_run") /\ output_shape = 3
    /\ \E r \in 0..(input.shape[0] - 1) :
          max_idx.data[r] > 0 /\ output.data[r * output_shape].x < 0

\* the element counts and shapes the geometry at hand requires
RequiredWeightsShape ==
    LET rows == IF IsConv THEN n_kernels ELSE output_shape
        cols == IF IsConv THEN kx * ky * input.shape[3] ELSE FanIn(input)
    IN  IF weights_transposed THEN Sh2(cols, rows) ELSE Sh2(rows, cols)

RequiredBiasShape == Sh1(IF IsConv THEN n_kernels ELSE output_shape)

RequiredOutputShape ==
    IF IsConv
    THEN Sh4(input.shape[0],
             Extent(input.shape[1], padding[1], padding[3], ky, sliding[1]),
             Extent(input.shape[2], padding[0], padding[2], kx, sliding[0]),
             n_kernels)
    ELSE Sh2(input.shape[0], output_shape)

ValidFillings == weights_filling \in Fillings /\ bias_filling \in Fillings

\* C8: when initialize returns, also after the input or output shape was
\* changed since an earlier initialize, weights, bias and output have the
\* shape (the dimensions, not only the element count) of the geometry at
\* hand.
C8_ShapesFollowGeometry ==
    (Returned("initialize") /\ ValidFillings) =>
        /\ weights.shape = RequiredWeightsShape
        /\ bias.shape = RequiredBiasShape
        /\ output.shape = RequiredOutputShape

\* one step of initialize from a state where the weights (the bias) exist
\* with the required element count leaves them as they are, and a step of
\* initialize that changes them starts from a state where they are missing
\* or of another count and leaves a buffer of the required count
C9_Step ==
    last_call'.op = "initialize" =>
        LET n_weights == Prod(RequiredWeightsShape)
            n_bias == Prod(RequiredBiasShape)
        IN  /\ (weights.alloc /\ Size(weights) = n_weights) => weights' = weights
            /\ (bias.alloc /\ Size(bias) = n_bias) => bias' = bias
            /\ weights' # weights =>
                  /\ ~weights.alloc \/ Size(weights) # n_weights
                  /\ weights'.alloc /\ Size(weights') = n_weights
            /\ bias' # bias =>
                  /\ ~bias.alloc \/ Size(bias) # n_bias
                  /\ bias'.alloc /\ Size(bias') = n_bias

\* C9: initialize leaves weights and bias unchanged when the buffer exists
\* with the required element count, and refills them only when the required
\* count changed (or the buffer is missing), the old contents being
\* discarded.
C9_ExistingBuffersKept == [][C9_Step]_vars

\* C9 witness: initialize returned on a layer whose weights and bias the
\* caller had assigned, and they are still the caller's
C9_Witness ==
    /\ IsConv /\ Returned("initialize")
    /\ weights.alloc /\ weights.data = UserData(Size(weights))
    /\ bias.alloc /\ bias.data = UserData(Size(bias))

\* C10: Conv.initialize of a layer whose weights_filling or bias_filling is
\* not one of the known policies fails with ErrBadFormat, whatever the
\* layer went through before.
C10_InvalidFillingFails ==
    (IsConv /\ last_call.op = "initialize" /\ ~ValidFillings) =>
        last_call.exc = "ErrBadFormat"

\* a step of Conv.initialize that fails with ErrBadFormat leaves weights,
\* bias, output, weights_stddev and bias_stddev as they were
C11_Step ==
    (IsConv /\ last_call' = [op |-> "initialize", exc |-> "ErrBadFormat"]) =>
        /\ weights' = weights
        /\ bias' = bias
        /\ output' = output
        /\ weights_stddev' = weights_stddev
        /\ bias_stddev' = bias_stddev

\* C11: when Conv.initialize fails with ErrBadFormat no partial state is
\* retained: weights, bias, output, weights_stddev and bias_stddev are after
\* the failed call what they were before it.
C11_NoPartialState == [][C11_Step]_vars

\* C12: a softmax layer whose fan_out (the product of output_shape) is at
\* most 1 is never initialized: its initialize fails with ErrBadFormat, and
\* no forward run takes place on it.
C12_SoftmaxNeedsTwoOutputs ==
    (cls = "All2AllSoftmax" /\ output_shape # NoneShape /\ output_shape <= 1) =>
        /\ ~initialized
        /\ last_call.op = "initialize" => last_call.exc = "ErrBadFormat"
        /\ last_call.op # "cpu_run"

\* C13: a Conv.cpu_run whose activation selector is none of
\* ACTIVATION_LINEAR, ACTIVATION_TANH, ACTIVATION_RELU fails with an error,
\* for every geometry with at least one output cell.
C13_UnknownActivationFails ==
    (IsConv /\ last_call.op = "cpu_run" /\ s_activation \notin KnownActivations
        /\ CpuNy(Self) >= 1 /\ CpuNx(Self) >= 1) =>
        last_call.exc # "none"

\* C14: no All2All layer exists that was constructed without output_shape:
\* the construction fails with MissingParameter, before any buffer is
\* allocated.
C14_MissingOutputShapeFails ==
    (cls \in A2AClasses /\ output_shape = NoneShape) =>
        /\ last_call = [op |-> "__init__", exc |-> "MissingParameter"]
        /\ ~weights.alloc /\ ~bias.alloc /\ ~output.alloc

Abs(x) == IF x < 0 THEN -x ELSE x

\* the magnitude initialize derived: weights_stddev of a convolutional
\* layer, weights_amplitude of a fully connected one
Magnitude == IF IsConv THEN weights_stddev.v ELSE weights_amplitude.v

\* C15: when the magnitude is derived by the heuristic, after initialize it
\* is at most 0.05 in absolute value, and so is every weight of a uniform or
\* constant filling, for every fan-in, every supposed maximum value of the
\* input (negative ones included) and every filling policy.
C15_MagnitudeCapped ==
    Returned("initialize") =>
        /\ Abs(Magnitude) <= WeightsCap
        /\ weights_filling # "gaussian" =>
              \A t \in DOMAIN weights.data : Abs(weights.data[t]) <= WeightsCap

\* C16: the magnitude is min(0.05, 9 / (supposed_max_input * fan_in)), the
\* supposed maximum multiplied by 0.6666 for tanh layers, fan_in being
\* kx * ky * channels (Conv) or the input elements per sample (All2All); for
\* a gaussian filling the stddev is that capped magnitude divided by 3.
C16_MagnitudeFormula ==
    Returned("initialize") =>
        LET fan_in == IF IsConv THEN kx * ky * n_channels ELSE FanIn(input)
            maxvle == IF cls \in {"ConvTanh", "All2AllTanh"}
                      THEN MulFP(input_maxvle, TanhScale)
                      ELSE input_maxvle
            capped == Min(DivFP(9 * FP, maxvle) \div fan_in, WeightsCap)
        IN  Magnitude = IF IsConv /\ weights_filling = "gaussian"
                        THEN capped \div 3
                        ELSE capped

\* a step of initialize that returns leaves 1.7159 as the supposed maximum of
\* the output of a tanh layer, 10 as that of a ReLU layer, and does not
\* change that of a linear layer
C17_Step ==
    last_call' = [op |-> "initialize", exc |-> "none"] =>
        /\ cls \in {"ConvTanh", "All2AllTanh"} => output_maxvle' = TanhMax
        /\ cls = "ConvRELU" => output_maxvle' = 10 * FP
        /\ cls \in {"Conv", "All2All"} => output_maxvle' = output_maxvle

\* C17: after a tanh layer (All2AllTanh or ConvTanh) was initialized 1.7159
\* is recorded as the supposed maximum value of its output, after a ReLU
\* layer was initialized 10 is; a linear layer leaves the value unchanged.
C17_SupposedMaxRecorded == [][C17_Step]_vars

(***************************************************************************)
(* C18: after any sequence of initialize calls on an All2All layer with a  *)
(* device, the kernel the layer holds (krn_) was built for the layer's     *)
(* current key: the defines of the current fan_in, fan_out, batch,         *)
(* activation and transposed flag.                                         *)
(***************************************************************************)
C18_KernelBuiltForCurrentKey ==
    (cls \in A2AClasses /\ device /\ Returned("initialize")) =>
        /\ krn_.some
        /\ krn_.key = A2ADefines(s_activation, weights_transposed, weights, output)

(***************************************************************************)
(* C19: the name under which a built program is cached is injective on the *)
(* key: no key that differs from the key of the layer's program in         *)
(* padding, stride, activation or transposed flag has the same cache name. *)
(***************************************************************************)
C19_SignatureInjective ==
    krn_.some =>
        IF IsConv
        THEN \A pad \in [0..3 -> Pads], sl \in [0..1 -> Slides],
                act \in KnownActivations, tr \in BOOLEAN :
                LET other == [krn_.key EXCEPT
                                 !.PAD_LEFT = pad[0], !.PAD_TOP = pad[1],
                                 !.PAD_RIGHT = pad[2], !.PAD_BOTTOM = pad[3],
                                 !.SLIDE_X = sl[0], !.SLIDE_Y = sl[1],
                                 !.activation = act, !.WEIGHTS_TRANSPOSED = tr]
                IN  other # krn_.key => ConvCacheFile(other) # krn_.file
        ELSE \A act \in KnownActivations, tr \in BOOLEAN :
                LET other == [krn_.key EXCEPT
                                 !.activation = act, !.WEIGHTS_TRANSPOSED = tr]
                IN  other # krn_.key =>
                        A2ACacheFile(other.H, other.Y_REAL) # krn_.file

(***************************************************************************)
(* C20: in any sequence of host runs and device runs on one layer, cpu_run *)
(* touches a buffer on the host only after it has mapped it in the         *)
(* direction it needs (input, weights and bias for reading, output         *)
(* invalidated for writing), print_debug_data reads the output only after  *)
(* mapping it for reading, and the kernel of ocl_run works on the four     *)
(* buffers only after all four are unmapped: the host run leaves the four  *)
(* buffers on the host, the device run leaves them on the device.          *)
(***************************************************************************)
C20_Step ==
    /\ last_call'.op = "cpu_run" =>
          /\ ~RunSteps(map_flags, CpuRunSteps, 1).hazard
          /\ map_flags' = [b \in Buffers |->
                              IF b = "output" THEN "invalidate" ELSE "read"]
    /\ last_call'.op = "ocl_run" =>
          /\ ~RunSteps(map_flags, OclRunSteps, 1).hazard
          /\ map_flags' = AllUnmapped
    /\ last_call'.op = "print_debug_data" =>
          /\ ~RunSteps(map_flags, DebugSteps, 1).hazard
          /\ map_flags'["output"] = "read"

C20_MappedBeforeTouched == [][C20_Step]_vars

\* a host run of a layer with a device has happened and has left input,
\* weights and bias mapped for reading and the output invalidated
C20_Witness ==
    /\ IsConv /\ device
    /\ last_call.op = "cpu_run"
    /\ map_flags = [b \in Buffers |-> IF b = "output" THEN "invalidate" ELSE "read"]

(***************************************************************************)
(* C21: every kernel launch is waited on before the call that issued it    *)
(* returns (Conv.ocl_run, All2All.gpu_run, All2AllSoftmax.gpu_apply_exp):  *)
(* no kernel is in flight when a device run has returned; the softmax pass *)
(* is enqueued only after the linear pass has completed; and output and    *)
(* max_idx are marked as updated on the device only with no kernel in      *)
(* flight.                                                                 *)
(***************************************************************************)
C21_Step ==
    /\ last_call'.op = "ocl_run" =>
          /\ ~Launches(queue_, OclRunSteps, 1).hazard
          /\ queue_' = {}
    /\ last_call'.op = "gpu_run" =>
          /\ ~Launches(queue_, A2AGpuSteps(cls), 1).hazard
          /\ queue_' = {}

C21_LaunchesWaited == [][C21_Step]_vars

\* a device run of a softmax layer, with its two kernel passes, has returned
C21_Witness ==
    /\ cls = "All2AllSoftmax" /\ device /\ krn_.some
    /\ Returned("gpu_run")
    /\ queue_ = {}

\* 1e-4 as a fixed-point number: the tolerance of the test
Tolerance == FP \div 10000

(***************************************************************************)
(* C22: the gradient descent update of the convolutional unit leaves       *)
(* weights - (learning_rate / batch_size) * (err_y^T . patches)            *)
(* - (learning_rate * weight_decay) * weights, patches being the forward   *)
(* input windows under the padding and stride of the layer with zero at    *)
(* the padded positions, and bias - (learning_rate / batch_size) * (sum of *)
(* err_y over batch and positions): on both fixtures of the test these are *)
(* weights_new and bias_new, which the test computes from its literal      *)
(* matrix of patches, within 1e-4.                                         *)
(***************************************************************************)
C22_GradientDescentUpdate ==
    (cls = "GradientDescentConv" /\ Returned("gpu_weights_update")) =>
        LET f == Fixture
            weights_new == TestWeightsNew(f, global_alpha, global_lambda)
            bias_new == TestBiasNew(f, global_alpha)
        IN  /\ \A i \in 0..(CpuNy(Self) - 1), j \in 0..(CpuNx(Self) - 1),
                  q \in 0..(kx * ky * n_channels - 1) :
                  GDPatch(Self, 0, i, j, q) = f.a.data[(i * CpuNx(Self) + j) * f.a.shape[1] + q]
            /\ DOMAIN weights.data = DOMAIN weights_new
            /\ \A t \in DOMAIN weights.data :
                  Abs(weights.data[t] - weights_new[t]) < Tolerance
            /\ DOMAIN bias.data = DOMAIN bias_new
            /\ \A k \in DOMAIN bias.data :
                  Abs(bias.data[k] - bias_new[k]) < Tolerance

\* the update of the unit with padding (1, 2, 3, 4) and sliding (2, 3), with
\* weight decay, has changed weights and bias
C22_Witness ==
    /\ cls = "GradientDescentConv" /\ Returned("gpu_weights_update")
    /\ padding = Tuple4(1, 2, 3, 4) /\ sliding = Sh2(2, 3)
    /\ global_lambda > 0
    /\ weights # FixturePaddingSliding.weights
    /\ bias # FixturePaddingSliding.bias

(***************************************************************************)
(* C23: err_h at each input position is the sum, over every output         *)
(* position whose forward window covers it and over every kernel, of err_y *)
(* at that output position times the kernel weight at the corresponding    *)
(* window offset, contributions on padded positions dropped: on both       *)
(* fixtures of the test this is the literal err_h of the test, within      *)
(* 1e-4.                                                                   *)
(***************************************************************************)
C23_InputError ==
    (cls = "GradientDescentConv" /\ Returned("gpu_err_h_update")) =>
        /\ err_h.shape = Fixture.t.shape
        /\ \A t \in DOMAIN Fixture.t.data :
              Abs(err_h.data[t] - Fixture.t.data[t]) < Tolerance

\* the input error of the unit with padding (1, 2, 3, 4) and sliding (2, 3)
\* has been computed
C23_Witness ==
    /\ cls = "GradientDescentConv" /\ Returned("gpu_err_h_update")
    /\ padding = Tuple4(1, 2, 3, 4) /\ sliding = Sh2(2, 3)
    /\ err_h.alloc /\ err_h # Zeros(input.shape)

(***************************************************************************)
(* C24: in the unit_test mode, after every initialize that returns, first  *)
(* or repeated, the batch size of the layer is the batch size of the       *)
(* input, output.mem has exactly that batch dimension and is the head of   *)
(* output.vv, the allocation for twice the batch size; and cpu_run writes  *)
(* only the batch indices below the batch size: it raises no IndexError    *)
(* and leaves the rest of output.vv as it was.                             *)
(***************************************************************************)
C24_Step ==
    /\ (IsConv /\ unit_test /\ last_call' = [op |-> "initialize", exc |-> "none"]) =>
          /\ batch_size' = input.shape[0]
          /\ output'.shape[0] = input.shape[0]
          /\ output_vv'.shape[0] = 2 * input.shape[0]
          /\ output' = HeadRows(output_vv', input.shape[0])
    /\ (IsConv /\ unit_test /\ last_call'.op = "cpu_run") =>
          /\ last_call'.exc # "IndexError"
          /\ \A t \in DOMAIN output_vv.data :
                t >= batch_size * (Size(output_vv) \div output_vv.shape[0]) =>
                    output_vv'.data[t] = output_vv.data[t]

C24_UnitTestBatch == [][C24_Step]_vars

\* the valid intersection of output row i (output column j) of the layer with
\* the input is empty
RowEmpty(i) == WindowI(Self, i).in2 - WindowI(Self, i).in1 <= 0

ColEmpty(j) == WindowJ(Self, j).in2 - WindowJ(Self, j).in1 <= 0

\* the positions (i, j) of the output grid, numbered row by row
Positions == 0..(CpuNy(Self) * CpuNx(Self) - 1)

PosI(p) == p \div CpuNx(Self)

PosJ(p) == p % CpuNx(Self)

\* position p with a window that misses the input on both axes
Outside(p) == RowEmpty(PosI(p)) /\ ColEmpty(PosJ(p))

\* the scan of a kernel meets position p: no earlier position is Outside
Met(p) == \A q \in 0..(p - 1) : ~Outside(q)

\* the scans of a run: one per batch element and row of the weights
Scans == (0..(batch_size - 1)) \X (0..(NRows(weights) - 1))

\* the index in output.mem of the cell of position p in scan sc
CellOf(sc, p) == Flat4(output.shape, sc[1], PosI(p), PosJ(p), sc[2])

\* a step of cpu_run that returns
CpuRunReturns == IsConv /\ last_call' = [op |-> "cpu_run", exc |-> "none"]

\* C25 as claimed: a cell that the scan meets and whose window is empty on
\* either axis, the row axis or the column axis alone, is not computed:
\* cpu_run leaves it as it was.
C25_ClaimStep ==
    CpuRunReturns =>
        \A sc \in Scans : \A p \in Positions :
            (Met(p) /\ (RowEmpty(PosI(p)) \/ ColEmpty(PosJ(p)))) =>
                output'.data[CellOf(sc, p)] = output.data[CellOf(sc, p)]

C25_AmendedStep ==
    CpuRunReturns =>
        \A sc \in Scans : \A p \in Positions :
            Met(p) =>
                /\ Outside(p) =>
                      output'.data[CellOf(sc, p)] = output.data[CellOf(sc, p)]
                /\ (~Outside(p) /\ (RowEmpty(PosI(p)) \/ ColEmpty(PosJ(p)))) =>
                      output'.data[CellOf(sc, p)] =
                          Activation(s_activation, bias.data[sc[2]])

MetInRow(p) ==
    \A q \in 0..(p - 1) : PosI(q) = PosI(p) => ~Outside(q)

\* the value the compute branch assigns to the cell of position p in scan sc
Computed(sc, p) ==
    ComputeCell(Self, [mem |-> output, exc |-> "none"],
                sc[1], sc[2], PosI(p), PosJ(p)).mem.data[CellOf(sc, p)]

\* C26: a cell with an empty intersection ends only the scan of its output
\* row for that kernel: in every scan (every batch element and kernel) every
\* cell that has a patch and no empty cell before it in its own row is
\* computed, also in the rows after a row that was cut short.
C26_Step ==
    CpuRunReturns =>
        \A sc \in Scans : \A p \in Positions :
            (MetInRow(p) /\ ~Outside(p)) =>
                output'.data[CellOf(sc, p)] = Computed(sc, p)

C26_SkipsRestOfRowOnly == [][C26_Step]_vars

\* position p reaches the compute branch of a scan
Computes(p) == Met(p) /\ ~Outside(p)

\* the width of the valid intersection of position p on the two axes
PatchRows(p) == WindowI(Self, PosI(p)).in2 - WindowI(Self, PosI(p)).in1

PatchCols(p) == WindowJ(Self, PosJ(p)).in2 - WindowJ(Self, PosJ(p)).in1

\* C27: the assertion cut.size == cutted_kernel.size of Conv.cpu_run never
\* fails: no run ends with AssertionError, and at every output position that
\* reaches the compute branch, the window partly or wholly outside the input
\* on one axis included, the clipped input patch (in_i2 - in_i1) x
\* (in_j2 - in_j1) x channels has as many elements as the kernel slice
\* selected by the cut offsets.
C27_AssertNeverFails ==
    (IsConv /\ initialized) =>
        /\ last_call.exc # "AssertionError"
        /\ \A p \in Positions :
              Computes(p) =>
                  LET wi == WindowI(Self, PosI(p))
                      wj == WindowJ(Self, PosJ(p))
                  IN  /\ CutSize(Self, wi, wj) = CuttedKernelSize(Self, wi, wj)
                      /\ PatchRows(p) * PatchCols(p) * n_channels
                            = CuttedKernelSize(Self, wi, wj)

\* a run has computed a cell whose window is clipped to a part of the kernel
\* and a cell whose window misses the input on one axis
C27_Witness ==
    /\ IsConv /\ Returned("cpu_run")
    /\ \E p \in Positions :
          /\ Computes(p)
          /\ PatchRows(p) > 0 /\ PatchCols(p) > 0
          /\ PatchRows(p) * PatchCols(p) < ky * kx
    /\ \E p \in Positions : Computes(p) /\ PatchRows(p) * PatchCols(p) = 0

\* every padding component is smaller than the kernel dimension on its axis
SmallPadding ==
    /\ padding[0] < kx /\ padding[2] < kx
    /\ padding[1] < ky /\ padding[3] < ky

\* C28: if every padding component is smaller than the kernel dimension on
\* its axis, the input dimensions are at least 1 and the kernel fits the
\* padded input, then every output position has a patch on both axes, the
\* scan of cpu_run meets no position at which it breaks, and a run that
\* returns has assigned every cell (batch, i, j, k) of the output.
C28_Step ==
    (IsConv /\ initialized /\ SmallPadding /\ input.shape[1] >= 1
     /\ input.shape[2] >= 1
     /\ KernelFits(input.shape[1], input.shape[2], kx, ky, padding)) =>
        /\ \A p \in Positions :
              PatchRows(p) > 0 /\ PatchCols(p) > 0 /\ Met(p) /\ ~Outside(p)
        /\ CpuRunReturns =>
              /\ Size(output') = batch_size * Cardinality(Positions) * NRows(weights)
              /\ \A sc \in Scans : \A p \in Positions :
                    output'.data[CellOf(sc, p)] = Computed(sc, p)

C28_SmallPaddingAllAssigned == [][C28_Step]_vars

\* a run of a layer with a 2 x 2 kernel and a padding of one on some side
\* has returned with no cell of the output left at the zero of initialize
C28_Witness ==
    /\ IsConv /\ Returned("cpu_run") /\ SmallPadding
    /\ kx = 2 /\ ky = 2
    /\ \E c \in 0..3 : padding[c] = 1
    /\ \A t \in DOMAIN output.data : output.data[t] # Zero

\* C29: after a cpu_run that returns, the output is a function of the input,
\* the weights, the bias and the geometry only: it is the output the same
\* run leaves on a buffer of zeros, whatever the buffer held before (the
\* pass is repeated once per input channel in both).
C29_OutputIndependentOfPrior ==
    (IsConv /\ Returned("cpu_run")) =>
        output = CpuRun(Self, ZerosOut(output.shape)).mem

====
